---- MODULE Spec2Model ----
(***************************************************************************)
(* A model of the PDF address mover: src/src/utils/pdfProcessor.js (the    *)
(* region processor) and the file list / processing handlers of            *)
(* src/src/App.vue.                                                        *)
(*                                                                         *)
(* Numbers.  Millimetre values are held in tenths of a millimetre (the UI  *)
(* rounds to one decimal place), point values in units of 1/127 point.     *)
(* MM_TO_PT = 72/25.4 = 360/127, so t tenths of a millimetre are exactly   *)
(* 36*t units of 1/127 point: every product with MM_TO_PT is exact in      *)
(* these units and no conversion is modelled as the identity.  Floating    *)
(* point rounding of the products is not modelled.                         *)
(*                                                                         *)
(* Indices.  The file list is the sequence files; the source's 0-based     *)
(* index i names files[i + 1], and activeIdx = -1 means no active file.    *)
(***************************************************************************)
EXTENDS Integers, Sequences, FiniteSets, TLC

VARIABLES
    files,          \* App.vue files: sequence of file entries
    activeIdx,      \* App.vue activeIdx (0-based, -1 when none)
    sourceRect,     \* App.vue sourceRect (working copy) or NULL
    destPoint,      \* App.vue destPoint (working copy) or NULL
    coverRect,      \* App.vue coverRect (working copy) or NULL
    ls,             \* localStorage: the text of the three pdfam-* keys, NULL when absent
    processing,     \* App.vue processing flag
    progressText,   \* App.vue progressText
    error,          \* App.vue error
    doneTimers,     \* pending setTimeout(() => progressText = '', 2500) callbacks
    intake,         \* the last onFilesAdded call (in flight while its queue is not
                    \* empty), or NULL
    run,            \* the processCurrent / processAll call in flight, or NULL
    pp,             \* where the processPdf call in flight is suspended
    call,           \* the arguments of the processPdf call in flight, or NULL
    canvas,         \* extractRegionAsImage: the full raster and the crop
    ops,            \* the document-writer calls made by the processPdf call in flight
    log,            \* history: what the current (or last) run has done, in order
    mode,           \* App.vue mode: "idle", "select-source", "set-destination", "select-cover"
    pdfDoc,         \* PdfPreview props.pdfDoc as the mounted preview has it, NULL while
                    \* no preview is mounted
    isDrawing,      \* PdfPreview isDrawing
    drawStart,      \* PdfPreview drawStart
    drawCurrent,    \* PdfPreview drawCurrent
    isDragging,     \* PdfPreview isDragging
    dragState,      \* PdfPreview dragState
    dragRect,       \* PdfPreview dragRect
    listeners,      \* the handlers of the preview registered on window
    emitted,        \* the event the last mouse handler of the preview has emitted, or NULL
    mouse,          \* the pointer: its button, where it is, where and in which mode
                    \* it went down and in which mode it came up
    renderInfo,     \* PdfPreview renderInfo
    isRendering,    \* PdfPreview isRendering
    pdfCanvas,      \* the canvas element of the preview: its size and what was drawn
    renders,        \* the render() calls in flight, in the order they were started
    rTimer,         \* PdfPreview rTimer: the debounce timer of onResize is pending
    clientWidth     \* container.clientWidth

appVars  == <<files, activeIdx, sourceRect, destPoint, coverRect, ls>>
uiVars   == <<processing, progressText, error, doneTimers>>
callVars == <<pp, call, canvas, ops>>
gestureVars == <<isDrawing, drawStart, drawCurrent, isDragging, dragState, dragRect,
                 listeners, emitted, mouse>>
renderVars == <<renderInfo, isRendering, pdfCanvas, renders, rTimer, clientWidth>>
previewVars == <<mode, pdfDoc, gestureVars, renderVars>>
vars == <<files, activeIdx, sourceRect, destPoint, coverRect, ls, processing,
          progressText, error, doneTimers, intake, run, pp, call, canvas, ops, log,
          mode, pdfDoc, isDrawing, drawStart, drawCurrent, isDragging, dragState,
          dragRect, listeners, emitted, mouse, renderInfo, isRendering, pdfCanvas,
          renders, rTimer, clientWidth>>

----------------------------------------------------------------------------
(* Bounds of the model *)

\* the documents the user has at hand are 1..MaxDocs
MaxDocs == 3
\* at most this many delayed clearings of the progress text are pending
MaxTimers == 1
\* SpecBatch: the user acts at most this many times on the list while a run is in flight
MaxUserOps == 2
\* SpecEdit, SpecAdd: the user has dropped at most this many documents
MaxEditFiles == 2
\* SpecName: the documents 1..MaxNameCode, whose file names are the named ones and
\* every text of up to five characters of NameChars
MaxNameCode == 9336
\* SpecGesture: the button of the pointer goes down at most this many times
MaxPresses == 1
\* SpecUnits: coordinates of 0..MaxMm tenths of a millimetre
MaxMm == 2100
\* SpecRender: at most this many render() calls of the preview are in flight
MaxRenders == 2

----------------------------------------------------------------------------
(* Values *)

\* JavaScript null / undefined
NULL == [null |-> TRUE]

\* numerator and denominator of MM_TO_PT = 72 / 25.4 for tenths of a millimetre:
\* (t / 10) * 72 / 25.4 = t * 36 / 127
MmToPtNum == 36
PtDen == 127

\* mm * MM_TO_PT, for mm given in tenths, in units of 1/PtDen point
MM_TO_PT(t) == t * MmToPtNum

\* one point, the unit of pad
Pt(n) == n * PtDen

\* extractRegionAsImage: const S = 4
S == 4

\* processPdf: const pad = 1
pad == 1

\* Math.round of the rational n / d (d > 0): floor(n/d + 1/2)
MathRound(n, d) == (2 * n + d) \div (2 * d)

\* Math.round(mm * MM_TO_PT * S), for mm in tenths
CropPx(t) == MathRound(MM_TO_PT(t) * S, PtDen)

\* the page of document d: its size in units of 1/PtDen point.
\* Odd documents are A4 (210 x 297 mm), even ones A5 (148 x 210 mm).
PageWidthMm(d) == IF d % 2 = 1 THEN 2100 ELSE 1480
PageHeightMm(d) == IF d % 2 = 1 THEN 2970 ELSE 2100
PageOf(d) == [width |-> MM_TO_PT(PageWidthMm(d)), height |-> MM_TO_PT(PageHeightMm(d))]

\* full.width = vp.width, full.height = vp.height with vp = getViewport({scale: S}):
\* a canvas dimension is an integer, the fraction is dropped
RasterOf(d) == [width  |-> (S * PageOf(d).width) \div PtDen,
                height |-> (S * PageOf(d).height) \div PtDen]

Rect(x, y, w, h) == [x |-> x, y |-> y, width |-> w, height |-> h]
Point(x, y) == [x |-> x, y |-> y]

\* `{ ...v }`
Copy(v) == v

\* JavaScript truthiness of a stored rectangle or point
Truthy(v) == v # NULL

\* the text JSON.stringify writes for a number of t tenths of a millimetre: the
\* sign, the integer digits and the fraction digit ("10.5", "-1", "0.5")
NumberToText(t) ==
    LET a == IF t < 0 THEN -t ELSE t
    IN  [neg |-> t < 0, int |-> a \div 10, frac |-> a % 10]

\* the number JSON.parse reads from such a text, in tenths
Mut_TextToNumberWhole(s) == IF s.neg THEN -(s.int * 10) ELSE s.int * 10
TextToNumber(s) ==
    LET a == s.int * 10 + s.frac
    IN  IF s.neg THEN -a ELSE a

\* the own keys of a rectangle or point, in insertion order
KeysOf(v) == IF "width" \in DOMAIN v THEN << "x", "y", "width", "height" >> ELSE << "x", "y" >>

\* JSON.stringify(v): the key / number-text pairs of v in key order
JsonStringify(v) ==
    [json |-> [k \in 1..Len(KeysOf(v)) |->
                 [key |-> KeysOf(v)[k], num |-> NumberToText(v[KeysOf(v)[k]])]]]

\* JSON.parse(s): the object with the keys of s, each with the number of its text
JsonParse(s) ==
    LET pairs == s.json
        NumOf(key) == pairs[CHOOSE k \in 1..Len(pairs) : pairs[k].key = key].num
    IN  IF \E k \in 1..Len(pairs) : pairs[k].key = "width"
        THEN Rect(TextToNumber(NumOf("x")), TextToNumber(NumOf("y")),
                  TextToNumber(NumOf("width")), TextToNumber(NumOf("height")))
        ELSE Point(TextToNumber(NumOf("x")), TextToNumber(NumOf("y")))

\* what localStorage.getItem yields for a key holding v's text, null when v is null
Stored(v) == IF Truthy(v) THEN JsonStringify(v) ELSE NULL

\* onMounted lines 33-38: `if (s) ref.value = JSON.parse(s)`
LoadStored(s) == IF s # NULL THEN JsonParse(s) ELSE NULL

----------------------------------------------------------------------------
(* The inputs the model draws from *)

\* rectangles the preview emits (drawn or dragged inside the page, positive size)
DrawnRects == { Rect(100, 100, 400, 150) }

\* rectangles typed into the number inputs of the sidebar (min="1" is a hint of the
\* input element, the handlers take any number): one of zero width as well
TypedRects == DrawnRects \cup { Rect(100, 100, 0, 150) }

\* destination points
DestPoints == { Point(100, 1500) }

\* cover rectangles
CoverRects == { Rect(50, 50, 105, 200) }

\* the source rectangles, destination points and cover rectangles processPdf is
\* driven with in SpecPdf: valid ones, zero and negative sizes, and rectangles
\* that leave the page on each side
PdfSrcRects ==
    { Rect(100, 100, 400, 150), Rect(0, 0, 5, 5), Rect(105, 2200, 855, 770),
      Rect(100, 100, 0, 150), Rect(100, 100, 400, 0), Rect(100, 100, -50, 150),
      Rect(100, 100, 400, -20),
      Rect(2000, 100, 400, 150), Rect(100, 2900, 400, 150), Rect(-10, 100, 400, 150),
      Rect(100, -10, 400, 150), Rect(1480, 100, 400, 150) }
PdfDestPoints == { Point(100, 1500), Point(0, 0), Point(100, 100), Point(1205, 35) }
PdfCoverRects == { NULL, Rect(50, 50, 105, 200), Rect(0, 2000, 2100, 970) }

----------------------------------------------------------------------------
(* processPdf and extractRegionAsImage, src/src/utils/pdfProcessor.js *)

\* reflecting a number into a canvas dimension: a value outside 0..2^31-1 becomes
\* the attribute's default
CanvasDim(v, dflt) == IF v >= 0 /\ v <= 2147483647 THEN v ELSE dflt

\* extractRegionAsImage lines 53-56: the crop in raster pixels
CropOf(srcMm) ==
    [cx |-> CropPx(srcMm.x), cy |-> CropPx(srcMm.y),
     cw |-> CropPx(srcMm.width), ch |-> CropPx(srcMm.height)]

\* extractRegionAsImage lines 58-60: the crop canvas (a canvas is 300 x 150 by default)
CropCanvas(srcMm) ==
    [width  |-> CanvasDim(CropOf(srcMm).cw, 300),
     height |-> CanvasDim(CropOf(srcMm).ch, 150)]

\* canvas.toBlob hands null to its callback when the canvas has no pixels
HasPixels(c) == c.width > 0 /\ c.height > 0

\* page.drawRectangle({x, y, width, height, color: rgb(1, 1, 1), borderWidth: 0})
DrawRectangle(x, y, w, h) ==
    [op |-> "drawRectangle", x |-> x, y |-> y, width |-> w, height |-> h,
     color |-> <<1, 1, 1>>]

\* page.drawImage(png, {x, y, width, height})
DrawImage(x, y, w, h) ==
    [op |-> "drawImage", x |-> x, y |-> y, width |-> w, height |-> h]

\* processPdf lines 75-85: the white-out of the source area, H the page height
Mut_SourceWhiteOutNoPad(srcMm, H) ==
    DrawRectangle(MM_TO_PT(srcMm.x),
                  H - MM_TO_PT(srcMm.y + srcMm.height),
                  MM_TO_PT(srcMm.width),
                  MM_TO_PT(srcMm.height))
SourceWhiteOut(srcMm, H) ==
    LET sX == MM_TO_PT(srcMm.x)
        sW == MM_TO_PT(srcMm.width)
        sH == MM_TO_PT(srcMm.height)
        sY == H - MM_TO_PT(srcMm.y + srcMm.height)
    IN  DrawRectangle(sX - Pt(pad), sY - Pt(pad), sW + 2 * Pt(pad), sH + 2 * Pt(pad))

\* processPdf lines 88-97: the white-out of the cover area, when there is one
Mut_CoverWhiteOutPadded(cov, H) ==
    IF Truthy(cov)
    THEN << DrawRectangle(MM_TO_PT(cov.x) - Pt(pad),
                          H - MM_TO_PT(cov.y + cov.height) - Pt(pad),
                          MM_TO_PT(cov.width) + 2 * Pt(pad),
                          MM_TO_PT(cov.height) + 2 * Pt(pad)) >>
    ELSE << >>
CoverWhiteOut(cov, H) ==
    IF Truthy(cov)
    THEN << DrawRectangle(MM_TO_PT(cov.x),
                          H - MM_TO_PT(cov.y + cov.height),
                          MM_TO_PT(cov.width),
                          MM_TO_PT(cov.height)) >>
    ELSE << >>

\* processPdf lines 101-103: the image drawn at the destination
Mut_PasteImageTopEdge(srcMm, dstMm, H) ==
    DrawImage(MM_TO_PT(dstMm.x), H - MM_TO_PT(dstMm.y),
              MM_TO_PT(srcMm.width), MM_TO_PT(srcMm.height))
Mut_PasteImageToPageEdge(srcMm, dstMm, H) ==
    DrawImage(MM_TO_PT(dstMm.x), H - MM_TO_PT(dstMm.y + srcMm.height),
              MM_TO_PT(srcMm.x + srcMm.width - dstMm.x), MM_TO_PT(srcMm.height))
PasteImage(srcMm, dstMm, H) ==
    LET sW == MM_TO_PT(srcMm.width)
        sH == MM_TO_PT(srcMm.height)
        dX == MM_TO_PT(dstMm.x)
        dY == H - MM_TO_PT(dstMm.y + srcMm.height)
    IN  DrawImage(dX, dY, sW, sH)

\* PdfPreview.vue line 41: mmToPx = mm * MM_TO_PT * renderInfo.scale.  The scale is
\* given in hundredths, the result is in units of 1/(100 * PtDen) pixel.
mmToPx(mm, scale) == MM_TO_PT(mm) * scale

\* PdfPreview.vue lines 60-64: the destination overlay, in pixels
dstPx(d, s, scale) ==
    [left |-> mmToPx(d.x, scale), top |-> mmToPx(d.y, scale),
     width |-> mmToPx(s.width, scale), height |-> mmToPx(s.height, scale)]

\* render scales of the preview, in hundredths: Math.min(maxWidth / base.width, 2)
RenderScales == { 67, 134, 200 }

\* the writer calls processPdf makes once PDFDocument.load has resolved, up to the
\* await of doc.embedPng (lines 71-100); c the call's arguments
AfterLoad(c) ==
    LET H == PageOf(c.doc).height
    IN  << SourceWhiteOut(c.srcMm, H) >> \o CoverWhiteOut(c.coverRect, H)
           \o << [op |-> "embedPng"] >>

\* the writer calls processPdf makes once doc.embedPng has resolved, up to the
\* await of doc.save (lines 101-105)
Mut_AfterEmbedWhiteOutLast(c) ==
    LET H == PageOf(c.doc).height
    IN  << PasteImage(c.srcMm, c.dstMm, H), SourceWhiteOut(c.srcMm, H), [op |-> "save"] >>
AfterEmbed(c) ==
    LET H == PageOf(c.doc).height
    IN  << PasteImage(c.srcMm, c.dstMm, H), [op |-> "save"] >>

----------------------------------------------------------------------------
(* The file list and the working coordinates, src/src/App.vue *)

\* a file entry of files (App.vue lines 72-77); name is the document it was read
\* from, which also stands for its arrayBuffer, pdfDoc and dims
FileEntry(d, src, dst, cov) ==
    [name |-> d, sourceRect |-> src, destPoint |-> dst, coverRect |-> cov]

\* files.value[i], undefined (NULL) outside the list
FileAt(fs, i) == IF i >= 0 /\ i < Len(fs) THEN fs[i + 1] ELSE NULL

\* computed activeFile
activeFile == FileAt(files, activeIdx)

\* f.sourceRect && f.destPoint
Mut_IsReadySourceOnly(f) == Truthy(f.sourceRect)
IsReady(f) == Truthy(f.sourceRect) /\ Truthy(f.destPoint)

\* computed canProcess
canProcess == Truthy(activeFile) /\ IsReady(activeFile)

\* computed filesReadyCount
filesReadyCount == Cardinality({i \in 1..Len(files) : IsReady(files[i])})

\* the 0-based indices k of fs with i <= k < n whose entry is ready, ascending
RECURSIVE FilterIdx(_, _, _)
FilterIdx(fs, i, n) ==
    IF i >= n THEN << >>
    ELSE (IF IsReady(fs[i + 1]) THEN << i >> ELSE << >>) \o FilterIdx(fs, i + 1, n)

\* processAll line 157: files.map((f, i) => ({f, i})).filter(({f}) => f.sourceRect && f.destPoint)
ReadyOf(fs) == FilterIdx(fs, 0, Len(fs))

\* the watchers of lines 42-59 write the active file's field
SetActiveField(fs, idx, field, v) ==
    IF Truthy(FileAt(fs, idx)) THEN [fs EXCEPT ![idx + 1][field] = Copy(v)] ELSE fs

\* ... and the local-storage key, when the value is not null
StoreIfSet(store, key, v) ==
    IF Truthy(v) THEN [store EXCEPT ![key] = JsonStringify(v)] ELSE store

\* Array.prototype.splice(i, 1)
Splice(fs, i) == [k \in 1..(Len(fs) - 1) |-> IF k <= i THEN fs[k] ELSE fs[k + 1]]

----------------------------------------------------------------------------
(* File names and the name of the download: src/src/App.vue line 145 *)

\* file names are sequences of characters.  The documents at hand carry these
\* names, in this order ...
NamedFiles ==
    << << "a", ".", "p", "d", "f" >>,
       << "b", ".", "P", "D", "F" >>,
       << "c", ".", "p", "d", "f", ".", "p", "d", "f" >>,
       << "d", ".", "P", "d", "f", "x" >>,
       << ".", "p", "d", "f" >>,
       << "p", "d", "f" >> >>

\* ... and the documents after them every text over these characters, shortest first
NameChars == << "a", ".", "p", "d", "f", "F" >>

RECURSIVE TextOf(_)
TextOf(n) ==
    IF n = 0 THEN << >>
    ELSE Append(TextOf((n - 1) \div Len(NameChars)), NameChars[((n - 1) % Len(NameChars)) + 1])

\* f.name of document d
FileName(d) == IF d <= Len(NamedFiles) THEN NamedFiles[d] ELSE TextOf(d - Len(NamedFiles))

\* the i flag of /\.pdf$/i: the lower-case form of a character
ToLower(c) == CASE c = "P" -> "p" [] c = "D" -> "d" [] c = "F" -> "f" [] OTHER -> c

\* /\.pdf$/i matches name: its last four characters are ".pdf" in any case
MatchesPdfAtEnd(name) ==
    /\ Len(name) >= 4
    /\ name[Len(name) - 3] = "."
    /\ ToLower(name[Len(name) - 2]) = "p"
    /\ ToLower(name[Len(name) - 1]) = "d"
    /\ ToLower(name[Len(name)]) = "f"

\* '-moved_address.pdf'
Suffix ==
    << "-", "m", "o", "v", "e", "d", "_", "a", "d", "d", "r", "e", "s", "s", ".", "p", "d", "f" >>

\* f.name.replace(/\.pdf$/i, '') + '-moved_address.pdf'
Mut_DownloadNameCaseSensitive(name) ==
    (IF Len(name) >= 4 /\ SubSeq(name, Len(name) - 3, Len(name)) = << ".", "p", "d", "f" >>
     THEN SubSeq(name, 1, Len(name) - 4) ELSE name) \o Suffix
DownloadName(name) ==
    (IF MatchesPdfAtEnd(name) THEN SubSeq(name, 1, Len(name) - 4) ELSE name) \o Suffix

----------------------------------------------------------------------------
(* processOne, processCurrent, processAll: src/src/App.vue lines 133-170 *)

\* error.value = `Processing failed: ${e.message}` / `Batch failed: ${e.message}`
Mut_ErrorForAlwaysSingle(kind, msg) == << "Processing failed", msg >>
ErrorFor(kind, msg) ==
    IF kind = "current" THEN << "Processing failed", msg >> ELSE << "Batch failed", msg >>

\* what a failing processOne leaves behind: the rejection reaches the catch of
\* processCurrent / processAll and nothing is downloaded
Mut_OnFailureDownloadAnyway(j, msg, c, done) ==
    << [ev |-> "download", j |-> j, call |-> c, result |-> done, filename |-> << >>],
       [ev |-> "fail", j |-> j, msg |-> msg, call |-> c, ops |-> done] >>
OnFailure(j, msg, c, done) ==
    << [ev |-> "fail", j |-> j, msg |-> msg, call |-> c, ops |-> done] >>

\* a rejection inside processOne(ready[j]): the catch and finally blocks of the
\* caller (lines 152-153, 168-169).  ptext is the progress text at that moment.
Mut_ThrowNoFinally(kind, j, msg, ptext, lg) ==
    /\ error' = ErrorFor(kind, msg)
    /\ processing' = processing
    /\ progressText' = ptext
    /\ run' = NULL
    /\ pp' = "idle"
    /\ call' = NULL
    /\ canvas' = NULL
    /\ ops' = << >>
    /\ log' = lg \o OnFailure(j, msg, call, ops)
    /\ doneTimers' = doneTimers
Throw(kind, j, msg, ptext, lg) ==
    /\ error' = ErrorFor(kind, msg)
    /\ processing' = FALSE
    /\ progressText' = IF kind = "current" THEN << >> ELSE ptext
    /\ run' = NULL
    /\ pp' = "idle"
    /\ call' = NULL
    /\ canvas' = NULL
    /\ ops' = << >>
    /\ log' = lg \o OnFailure(j, msg, call, ops)
    /\ doneTimers' = doneTimers

\* processOne(rdy[j]) up to its first await (lines 134-144, 67-69, 44): read the
\* file entry, check it, call processPdf, which calls extractRegionAsImage, which
\* awaits pdfDoc.getPage.  ptext and err are the progress text and error the
\* caller has set before the call; touched tells whether files were removed
\* since the run started.
EnterProcessOne(kind, rdy, j, touched, ptext, err, lg) ==
    LET i == rdy[j + 1]
        f == FileAt(files, i)
    IN  IF ~Truthy(f)
        THEN Throw(kind, j, [e |-> "TypeError"], ptext, lg)
        ELSE IF ~IsReady(f)
        THEN Throw(kind, j, [e |-> "has no source or destination set", name |-> f.name],
                   ptext, lg)
        ELSE /\ run' = [kind |-> kind, ready |-> rdy, j |-> j, touched |-> touched,
                         userOps |-> IF run = NULL THEN 0 ELSE run.userOps]
             /\ call' = [doc |-> f.name, srcMm |-> f.sourceRect, dstMm |-> f.destPoint,
                         coverRect |-> f.coverRect]
             /\ pp' = "getPage"
             /\ canvas' = NULL
             /\ ops' = << >>
             /\ log' = Append(lg, [ev |-> "start", j |-> j, i |-> i, name |-> f.name,
                                   touched |-> touched])
             /\ processing' = TRUE
             /\ progressText' = ptext
             /\ error' = err
             /\ doneTimers' = doneTimers

\* the first entry of a run's log: what the run was started on
RunEvent(kind, rdy) == [ev |-> "run", kind |-> kind, ready |-> rdy, files |-> files]

\* :disabled="!canProcess || processing", :disabled="filesReadyCount === 0 ||
\* processing" (template lines 272, 276): nothing = nothing to process
Mut_ButtonDisabledIgnoresProcessing(nothing) == nothing
ButtonDisabled(nothing) == nothing \/ processing

\* click on "Process Current File"; processCurrent returns at once when
\* !canProcess || activeIdx < 0 (line 149)
ProcessCurrent ==
    /\ UNCHANGED previewVars
    /\ ~ButtonDisabled(~canProcess)
    /\ canProcess /\ activeIdx >= 0
    /\ EnterProcessOne("current", << activeIdx >>, 0, FALSE, << "Processing" >>, << >>,
                       << RunEvent("current", << activeIdx >>) >>)
    /\ UNCHANGED << appVars, intake >>

\* click on "Process n Ready Files" (shown when files.length > 1)
ProcessAll ==
    /\ UNCHANGED previewVars
    /\ Len(files) > 1
    /\ ~ButtonDisabled(filesReadyCount = 0)
    /\ doneTimers < MaxTimers
    /\ LET ready == ReadyOf(files)
       IN  /\ Len(ready) # 0
           /\ EnterProcessOne("all", ready, 0, FALSE, << "Processing", 1, Len(ready) >>,
                              << >>, << RunEvent("all", ready) >>)
    /\ UNCHANGED << appVars, intake >>

\* an awaited library call rejects: the error leaves processPdf and processOne
Reject(at) ==
    Throw(run.kind, run.j, [e |-> "Error", at |-> at], progressText, log)

\* pdfDoc.getPage(pageNum) settles (line 44); on success the full canvas is sized
\* to the viewport at scale S and page.render is awaited (lines 45-51)
P_GetPage ==
    /\ UNCHANGED previewVars
    /\ pp = "getPage"
    /\ \E ok \in BOOLEAN :
         IF ok
         THEN /\ canvas' = [full |-> RasterOf(call.doc), crop |-> NULL, cropCanvas |-> NULL,
                            png |-> "none"]
              /\ pp' = "render"
              /\ UNCHANGED << uiVars, run, call, ops, log >>
         ELSE Reject("getPage")
    /\ UNCHANGED << appVars, intake >>

\* page.render settles (line 51); on success the crop is computed and drawn into
\* the crop canvas, and toBlob is awaited (lines 53-63)
P_Render ==
    /\ UNCHANGED previewVars
    /\ pp = "render"
    /\ \E ok \in BOOLEAN :
         IF ok
         THEN /\ canvas' = [canvas EXCEPT !.crop = CropOf(call.srcMm),
                                          !.cropCanvas = CropCanvas(call.srcMm)]
              /\ pp' = "toBlob"
              /\ UNCHANGED << uiVars, run, call, ops, log >>
         ELSE Reject("render")
    /\ UNCHANGED << appVars, intake >>

\* the toBlob callback runs (line 63): blob is null when the crop canvas has no
\* pixels, and may be null when the image cannot be encoded; blob.arrayBuffer()
\* on null is a TypeError, otherwise it is awaited (line 64)
P_ToBlob ==
    /\ UNCHANGED previewVars
    /\ pp = "toBlob"
    /\ \E encoded \in BOOLEAN :
         IF HasPixels(canvas.cropCanvas) /\ encoded
         THEN /\ canvas' = [canvas EXCEPT !.png = "blob"]
              /\ pp' = "arrayBuffer"
              /\ UNCHANGED << uiVars, run, call, ops, log >>
         ELSE Throw(run.kind, run.j, [e |-> "TypeError", at |-> "toBlob"], progressText, log)
    /\ UNCHANGED << appVars, intake >>

\* blob.arrayBuffer() settles (line 64); on success extractRegionAsImage returns
\* the image bytes and processPdf awaits PDFDocument.load(originalBytes) (line 70)
P_ArrayBuffer ==
    /\ UNCHANGED previewVars
    /\ pp = "arrayBuffer"
    /\ \E ok \in BOOLEAN :
         IF ok
         THEN /\ canvas' = [canvas EXCEPT !.png = "bytes"]
              /\ ops' = << [op |-> "load"] >>
              /\ pp' = "load"
              /\ UNCHANGED << uiVars, run, call, log >>
         ELSE Reject("arrayBuffer")
    /\ UNCHANGED << appVars, intake >>

\* PDFDocument.load settles (line 70); it rejects when the bytes do not parse, and
\* page.getSize() is a TypeError when the document has no page pageNum; on success
\* the white-outs are drawn and doc.embedPng is awaited (lines 71-100)
P_Load ==
    /\ UNCHANGED previewVars
    /\ pp = "load"
    /\ \E ok \in BOOLEAN :
         IF ok
         THEN /\ ops' = ops \o AfterLoad(call)
              /\ pp' = "embedPng"
              /\ UNCHANGED << uiVars, run, call, canvas, log >>
         ELSE Reject("load")
    /\ UNCHANGED << appVars, intake >>

\* doc.embedPng settles (line 100); on success the image is drawn and doc.save is
\* awaited (lines 101-105)
P_EmbedPng ==
    /\ UNCHANGED previewVars
    /\ pp = "embedPng"
    /\ \E ok \in BOOLEAN :
         IF ok
         THEN /\ ops' = ops \o AfterEmbed(call)
              /\ pp' = "save"
              /\ UNCHANGED << uiVars, run, call, canvas, log >>
         ELSE Reject("embedPng")
    /\ UNCHANGED << appVars, intake >>

\* doc.save settles (line 105); on success processPdf returns the bytes, processOne
\* downloads them (line 145) and the caller goes on: processCurrent to its finally
\* (line 153), processAll to the 400 ms pause (line 164) or to its end (lines 166-169)
P_Save ==
    /\ UNCHANGED previewVars
    /\ pp = "save"
    /\ \E ok \in BOOLEAN :
         IF ok
         THEN LET dl == [ev |-> "download", j |-> run.j, call |-> call, result |-> ops,
                         filename |-> DownloadName(FileName(call.doc))]
                  last == run.j >= Len(run.ready) - 1
              IN  /\ call' = NULL
                  /\ canvas' = NULL
                  /\ ops' = << >>
                  /\ error' = error
                  /\ IF run.kind = "all" /\ ~last
                     THEN /\ pp' = "delay"
                          /\ run' = run
                          /\ log' = Append(log, dl)
                          /\ UNCHANGED << processing, progressText, doneTimers >>
                     ELSE /\ pp' = "idle"
                          /\ run' = NULL
                          /\ log' = log \o << dl, [ev |-> "done"] >>
                          /\ processing' = FALSE
                          /\ progressText' = IF run.kind = "all" THEN << "Done" >> ELSE << >>
                          /\ doneTimers' = IF run.kind = "all" THEN doneTimers + 1
                                           ELSE doneTimers
         ELSE Reject("save")
    /\ UNCHANGED << appVars, intake >>

\* the 400 ms pause between two files of a batch ends (line 164): the loop sets the
\* progress text (line 162) and calls processOne on the next ready entry (line 163)
P_Delay ==
    /\ UNCHANGED previewVars
    /\ pp = "delay"
    /\ EnterProcessOne("all", run.ready, run.j + 1, run.touched,
                       << "Processing", run.j + 2, Len(run.ready) >>, error, log)
    /\ UNCHANGED << appVars, intake >>

\* the timer of line 167 fires: setTimeout(() => { progressText.value = '' }, 2500)
DoneTimer ==
    /\ UNCHANGED previewVars
    /\ doneTimers > 0
    /\ doneTimers' = doneTimers - 1
    /\ progressText' = << >>
    /\ UNCHANGED << appVars, processing, error, intake, run, callVars, log >>

----------------------------------------------------------------------------
(* The file list handlers: src/src/App.vue lines 62-123, 172-178 *)

\* a run in flight notes that the user has acted, and whether entries were taken
\* out of the list under it
Acted(r) ==
    IF r = NULL THEN r
    ELSE [r EXCEPT !.userOps = IF @ < MaxUserOps THEN @ + 1 ELSE @]
Touch(r) == IF r = NULL THEN r ELSE [Acted(r) EXCEPT !.touched = TRUE]

\* `v ? { ...v } : null`
CopyOrNull(v) == IF Truthy(v) THEN Copy(v) ELSE NULL

\* the value a working ref takes from a file's field in selectFile (lines 87-89):
\* `f?.field ? { ...f.field } : null`
FieldOrNull(f, field) == IF Truthy(f) THEN CopyOrNull(f[field]) ELSE NULL

\* selectFile(i) on the list fs (lines 83-91): syncing is true while the watchers
\* of the three refs run, so they write neither the file nor local storage
SelectFileOn(fs, i) ==
    /\ activeIdx' = i
    /\ sourceRect' = FieldOrNull(FileAt(fs, i), "sourceRect")
    /\ destPoint' = FieldOrNull(FileAt(fs, i), "destPoint")
    /\ coverRect' = FieldOrNull(FileAt(fs, i), "coverRect")

\* the lists of distinct documents out of the set avail
DocLists(avail) ==
    {q \in UNION {[1..n -> avail] : n \in 1..Cardinality(avail)} :
        \A a, b \in DOMAIN q : a # b => q[a] # q[b]}

\* an onFilesAdded call is suspended at an await of its loop
IntakeInFlight == intake # NULL /\ intake.queue # << >>

\* the files of the list a failing turn of the loop leaves to be read: the catch
\* of line 78 is inside the loop, which goes on with the next file
Mut_RestAfterFailureNone(queue) == << >>
RestAfterFailure(queue) == Tail(queue)

\* error.value = `Failed to load "${f.name}": ${e.message}` (line 78)
LoadError(d) == << "Failed to load", d >>

\* the entry pushed for document d (lines 72-77), with copies of the defaults
\* taken when onFilesAdded was called
Mut_NewFileBlank(d, dSrc, dDst, dCov) == FileEntry(d, NULL, NULL, NULL)
NewFile(d, dSrc, dDst, dCov) ==
    FileEntry(d, CopyOrNull(dSrc), CopyOrNull(dDst), CopyOrNull(dCov))

\* the documents in the list or being read
DocsInUse ==
    {files[k].name : k \in 1..Len(files)}
        \cup (IF intake = NULL THEN {} ELSE {intake.queue[k] : k \in 1..Len(intake.queue)})

\* onFilesAdded(list) up to its first await (lines 63-69).  The user drops documents
\* that are not in the list yet, and one drop at a time.  given, before and failed
\* keep what the call was given, the list it found and the files that failed.
OnFilesAdded ==
    /\ UNCHANGED previewVars
    /\ ~IntakeInFlight
    /\ \E list \in DocLists((1..MaxDocs) \ DocsInUse) :
         intake' = [queue |-> list,
                    dSrc |-> CopyOrNull(sourceRect),
                    dDst |-> CopyOrNull(destPoint),
                    dCov |-> CopyOrNull(coverRect),
                    given |-> list,
                    before |-> files,
                    failed |-> {}]
    /\ error' = << >>
    /\ run' = Acted(run)
    /\ UNCHANGED << appVars, processing, progressText, doneTimers, callVars, log >>

\* one turn of the loop of onFilesAdded (lines 67-79): the three awaits of the try
\* block settle, the file is pushed or the failure is reported; after the last
\* file, line 80 selects the first file when none is active
IntakeStep ==
    /\ UNCHANGED previewVars
    /\ IntakeInFlight
    /\ \E ok \in BOOLEAN :
         LET d == Head(intake.queue)
             fs == IF ok
                   THEN Append(files, NewFile(d, intake.dSrc, intake.dDst, intake.dCov))
                   ELSE files
             rest == IF ok THEN Tail(intake.queue) ELSE RestAfterFailure(intake.queue)
             last == rest = << >>
         IN  /\ files' = fs
             /\ error' = IF ok THEN error ELSE LoadError(d)
             /\ intake' = [intake EXCEPT !.queue = rest,
                                         !.failed = IF ok THEN @ ELSE @ \cup {d}]
             /\ IF last /\ activeIdx < 0 /\ Len(fs) # 0
                THEN SelectFileOn(fs, 0)
                ELSE UNCHANGED << activeIdx, sourceRect, destPoint, coverRect >>
    /\ UNCHANGED << ls, processing, progressText, doneTimers, run, callVars, log >>

\* click on a file of the list (line 201)
Mut_SelectFileNoSyncGuard ==
    /\ UNCHANGED previewVars
    /\ \E i \in 0..(Len(files) - 1) :
         /\ SelectFileOn(files, i)
         /\ ls' = LET f == FileAt(files, i)
                       s1 == StoreIfSet(ls, "src", FieldOrNull(f, "sourceRect"))
                       s2 == StoreIfSet(s1, "dst", FieldOrNull(f, "destPoint"))
                   IN  [s2 EXCEPT !.cov = Stored(FieldOrNull(f, "coverRect"))]
    /\ run' = Acted(run)
    /\ UNCHANGED << files, uiVars, intake, callVars, log >>
SelectFile ==
    /\ UNCHANGED previewVars
    /\ \E i \in 0..(Len(files) - 1) : SelectFileOn(files, i)
    /\ run' = Acted(run)
    /\ UNCHANGED << files, ls, uiVars, intake, callVars, log >>

\* removeFile(i) without its re-selection of lines 99-100
Mut_RemoveFileKeepsIndex ==
    /\ UNCHANGED previewVars
    /\ \E i \in 0..(Len(files) - 1) :
         LET fs == Splice(files, i)
         IN  /\ files' = fs
             /\ IF Len(fs) = 0
                THEN /\ activeIdx' = -1
                     /\ sourceRect' = NULL
                     /\ destPoint' = NULL
                     /\ coverRect' = NULL
                ELSE UNCHANGED << activeIdx, sourceRect, destPoint, coverRect >>
    /\ run' = Touch(run)
    /\ UNCHANGED << ls, uiVars, intake, callVars, log >>

\* removeFile(i) (lines 93-101)
RemoveFile ==
    /\ UNCHANGED previewVars
    /\ \E i \in 0..(Len(files) - 1) :
         LET fs == Splice(files, i)
         IN  /\ files' = fs
             /\ IF Len(fs) = 0
                THEN /\ activeIdx' = -1
                     /\ sourceRect' = NULL
                     /\ destPoint' = NULL
                     /\ coverRect' = NULL
                ELSE IF activeIdx >= Len(fs)
                THEN SelectFileOn(fs, Len(fs) - 1)
                ELSE IF activeIdx = i
                THEN SelectFileOn(fs, IF i < Len(fs) - 1 THEN i ELSE Len(fs) - 1)
                ELSE UNCHANGED << activeIdx, sourceRect, destPoint, coverRect >>
    /\ run' = Touch(run)
    /\ UNCHANGED << ls, uiVars, intake, callVars, log >>

\* clearFiles() (line 103), the "Clear all" button shown while files.length
ClearFiles ==
    /\ UNCHANGED previewVars
    /\ Len(files) # 0
    /\ files' = << >>
    /\ activeIdx' = -1
    /\ error' = << >>
    /\ run' = Touch(run)
    /\ UNCHANGED << sourceRect, destPoint, coverRect, ls, processing, progressText,
                    doneTimers, intake, callVars, log >>

\* applyToAll() (lines 105-111), shown when files.length > 1 && sourceRect
ApplyToAll ==
    /\ UNCHANGED previewVars
    /\ Len(files) > 1 /\ Truthy(sourceRect)
    /\ files' = [k \in 1..Len(files) |->
                    [files[k] EXCEPT !.sourceRect = CopyOrNull(sourceRect),
                                     !.destPoint = CopyOrNull(destPoint),
                                     !.coverRect = CopyOrNull(coverRect)]]
    /\ run' = Acted(run)
    /\ UNCHANGED << activeIdx, sourceRect, destPoint, coverRect, ls, uiVars, intake,
                    callVars, log >>

\* the working source rectangle is set to r and its watcher runs (lines 42-46)
SetSourceRect(r) ==
    /\ sourceRect' = r
    /\ files' = SetActiveField(files, activeIdx, "sourceRect", r)
    /\ ls' = StoreIfSet(ls, "src", r)
    /\ run' = Acted(run)
    /\ UNCHANGED << activeIdx, destPoint, coverRect, uiVars, intake, callVars, log >>

\* the working destination point is set to p and its watcher runs (lines 48-52)
SetDestPoint(p) ==
    /\ destPoint' = p
    /\ files' = SetActiveField(files, activeIdx, "destPoint", p)
    /\ ls' = StoreIfSet(ls, "dst", p)
    /\ run' = Acted(run)
    /\ UNCHANGED << activeIdx, sourceRect, coverRect, uiVars, intake, callVars, log >>

\* the working cover rectangle is set to r and its watcher runs (lines 54-59)
SetCoverRect(r) ==
    /\ coverRect' = r
    /\ files' = SetActiveField(files, activeIdx, "coverRect", r)
    /\ ls' = IF Truthy(r) THEN [ls EXCEPT !.cov = JsonStringify(r)]
                         ELSE [ls EXCEPT !.cov = NULL]
    /\ run' = Acted(run)
    /\ UNCHANGED << activeIdx, sourceRect, destPoint, uiVars, intake, callVars, log >>

\* onSourceSelected(r) (line 114): the preview, shown while a file is active,
\* emits a drawn or dragged rectangle
OnSourceSelected ==
    /\ Truthy(activeFile)
    /\ mode' = "idle"
    /\ UNCHANGED << pdfDoc, gestureVars, renderVars >>
    /\ \E r \in DrawnRects : SetSourceRect(r)

\* a number typed into an input of the source grid, shown while sourceRect (lines 218-223)
EditSourceRect ==
    /\ UNCHANGED previewVars
    /\ Truthy(sourceRect)
    /\ \E r \in TypedRects : SetSourceRect(r)

\* onDestinationSet(p) (line 115): the preview emits a clicked or dragged point;
\* both need a source rectangle (line 235; PdfPreview.vue lines 60-63)
OnDestinationSet ==
    /\ Truthy(activeFile) /\ Truthy(sourceRect)
    /\ mode' = "idle"
    /\ UNCHANGED << pdfDoc, gestureVars, renderVars >>
    /\ \E p \in DestPoints : SetDestPoint(p)

\* a number typed into an input of the destination grid, shown while destPoint
\* (lines 239-242)
EditDestPoint ==
    /\ UNCHANGED previewVars
    /\ Truthy(destPoint)
    /\ \E p \in DestPoints : SetDestPoint(p)

\* a number typed into an input of the cover grid, shown while coverRect (lines 254-259)
EditCoverRect ==
    /\ UNCHANGED previewVars
    /\ Truthy(coverRect)
    /\ \E r \in CoverRects : SetCoverRect(r)

\* clearCover() (lines 119-123), shown while coverRect
ClearCover ==
    /\ UNCHANGED previewVars
    /\ Truthy(coverRect)
    /\ SetCoverRect(NULL)

\* resetSettings() (lines 172-178)
Mut_ResetSettingsKeepsCoverKey ==
    /\ UNCHANGED previewVars
    /\ sourceRect' = NULL
    /\ destPoint' = NULL
    /\ coverRect' = NULL
    /\ files' = IF Truthy(activeFile)
                THEN [files EXCEPT ![activeIdx + 1] =
                        FileEntry(@.name, NULL, NULL, NULL)]
                ELSE files
    /\ ls' = [src |-> NULL, dst |-> NULL, cov |-> ls.cov]
    /\ run' = Acted(run)
    /\ UNCHANGED << activeIdx, uiVars, intake, callVars, log >>
ResetSettings ==
    /\ UNCHANGED previewVars
    /\ sourceRect' = NULL
    /\ destPoint' = NULL
    /\ coverRect' = NULL
    /\ files' = IF Truthy(activeFile)
                THEN [files EXCEPT ![activeIdx + 1] =
                        FileEntry(@.name, NULL, NULL, NULL)]
                ELSE files
    /\ ls' = [src |-> NULL, dst |-> NULL, cov |-> NULL]
    /\ run' = Acted(run)
    /\ UNCHANGED << activeIdx, uiVars, intake, callVars, log >>

\* the x button of the error box (line 291)
DismissError ==
    /\ UNCHANGED previewVars
    /\ error # << >>
    /\ error' = << >>
    /\ UNCHANGED << appVars, processing, progressText, doneTimers, intake, run,
                    callVars, log >>

----------------------------------------------------------------------------
(* The preview: src/src/components/PdfPreview.vue (first component of the     *)
(* file), renderPageToCanvas of pdfProcessor.js and the mode buttons of        *)
(* App.vue.  Pixel values are held in units of 1/(100 * PtDen) pixel and       *)
(* render scales in hundredths, so that mm * MM_TO_PT * scale is exact.        *)

\* n pixels
Px(n) == n * 100 * PtDen

Min(a, b) == IF a < b THEN a ELSE b
Max(a, b) == IF a > b THEN a ELSE b

\* PT_TO_MM = 25.4 / 72 (pdfProcessor.js line 9): p units of 1/PtDen point are
\* p / MmToPtNum tenths of a millimetre, given as numerator and denominator
Mut_PT_TO_MM_Rounded(p) == [num |-> 35 * p, den |-> 10 * PtDen]
PT_TO_MM(p) == [num |-> p, den |-> MmToPtNum]

\* whether the rational q is the number of t tenths of a millimetre
IsTenths(q, t) == q.num = t * q.den

\* pxToMm (lines 42-43): Math.round(px / scale * PT_TO_MM * 10) / 10 in tenths of a
\* millimetre, 0 without renderInfo.  px / scale is px / (100 * PtDen) / (scale / 100)
\* points, that is px / scale units of 1/PtDen point.
pxToMm(px, info) ==
    IF info = NULL THEN 0
    ELSE MathRound(PT_TO_MM(px).num, PT_TO_MM(px).den * info.scale)

\* mmToPx with renderInfo (line 41): 0 without renderInfo
mmToPxAt(mm, info) == IF info = NULL THEN 0 ELSE mmToPx(mm, info.scale)

\* activePdf (App.vue line 20), the pdf-doc prop of the preview: the document of
\* the active file
activePdf == IF Truthy(activeFile) THEN [doc |-> activeFile.name] ELSE NULL

\* the overlays take the pointer in every mode
Mut_isIdleAnyMode == ~isDrawing

\* isIdle, isInteractMode (lines 37-38)
isIdle == mode = "idle" /\ ~isDrawing
isInteractMode == mode = "select-source" \/ mode = "set-destination"

\* srcPx, dstPx (lines 56-65): the overlays in pixels, from the props
srcPx ==
    IF ~Truthy(sourceRect) \/ renderInfo = NULL THEN NULL
    ELSE [left |-> mmToPx(sourceRect.x, renderInfo.scale),
          top |-> mmToPx(sourceRect.y, renderInfo.scale),
          width |-> mmToPx(sourceRect.width, renderInfo.scale),
          height |-> mmToPx(sourceRect.height, renderInfo.scale)]
dstPxNow ==
    IF ~Truthy(destPoint) \/ ~Truthy(sourceRect) \/ renderInfo = NULL THEN NULL
    ELSE dstPx(destPoint, sourceRect, renderInfo.scale)

\* srcStyle, dstStyle (lines 71-72) are set: the overlay is in the page
srcStyle == IF dragRect # NULL /\ dragRect.which = "source" THEN dragRect ELSE srcPx
dstStyle == IF dragRect # NULL /\ dragRect.which = "dest" THEN dragRect ELSE dstPxNow

\* canvasCoords(e) (lines 45-52); e is the pointer relative to the corner of the
\* canvas, in whole pixels.  The bounding rectangle of the canvas is its width and
\* height, and all zero while the canvas wrapper is hidden (v-show, line 227).
canvasCoords(e) ==
    LET w == IF isRendering \/ pdfCanvas = NULL THEN 0 ELSE Px(pdfCanvas.width)
        h == IF isRendering \/ pdfCanvas = NULL THEN 0 ELSE Px(pdfCanvas.height)
    IN  [x |-> Max(0, Min(Px(e.x), w)), y |-> Max(0, Min(Px(e.y), h))]

\* where the pointer goes: positions relative to the corner of the canvas, in pixels
MousePts == { [x |-> 100, y |-> 100], [x |-> 105, y |-> 300], [x |-> 300, y |-> 200] }

\* the widths of the container
ContainerWidths == { 440, 840, 1440 }

HANDLES == { "nw", "n", "ne", "e", "se", "s", "sw", "w" }

\* h.includes(ch) for a handle h
Includes(h, ch) ==
    CASE ch = "n" -> h \in {"nw", "n", "ne"}
      [] ch = "s" -> h \in {"se", "s", "sw"}
      [] ch = "w" -> h \in {"nw", "w", "sw"}
      [] ch = "e" -> h \in {"ne", "e", "se"}

\* onDragMove: const MIN = 10 (line 188); the same 10 pixels in onDrawUp (line 137)
MIN == 10

\* the pointer before the first press
MouseAtRest ==
    [button |-> "up", at |-> NULL, downAt |-> NULL, downMode |-> "none", upMode |-> "none",
     presses |-> 0]

\* no preview is mounted (App.vue line 308: v-if="!activePdf") and the mode is idle
NoPreview ==
    /\ mode = "idle"
    /\ pdfDoc = NULL
    /\ isDrawing = FALSE
    /\ drawStart = NULL
    /\ drawCurrent = NULL
    /\ isDragging = FALSE
    /\ dragState = NULL
    /\ dragRect = NULL
    /\ listeners = {}
    /\ emitted = NULL
    /\ mouse = MouseAtRest
    /\ renderInfo = NULL
    /\ isRendering = FALSE
    /\ pdfCanvas = NULL
    /\ renders = << >>
    /\ rTimer = FALSE
    /\ clientWidth = 840

\* the refs of a preview as set up (lines 21-28), or of one that is gone
FreshGesture ==
    /\ isDrawing' = FALSE
    /\ drawStart' = NULL
    /\ drawCurrent' = NULL
    /\ isDragging' = FALSE
    /\ dragState' = NULL
    /\ dragRect' = NULL
    /\ listeners' = {}
    /\ emitted' = NULL

\* the mode buttons (App.vue lines 214-217, 234-238, 250-253)
ToggleSelectSource ==
    /\ Truthy(activePdf)
    /\ mode' = IF mode = "select-source" THEN "idle" ELSE "select-source"
    /\ UNCHANGED << appVars, uiVars, intake, run, callVars, log, pdfDoc, gestureVars,
                    renderVars >>

ToggleSetDestination ==
    /\ Truthy(activePdf) /\ Truthy(sourceRect)
    /\ mode' = IF mode = "set-destination" THEN "idle" ELSE "set-destination"
    /\ UNCHANGED << appVars, uiVars, intake, run, callVars, log, pdfDoc, gestureVars,
                    renderVars >>

ToggleSelectCover ==
    /\ Truthy(activePdf)
    /\ mode' = IF mode = "select-cover" THEN "idle" ELSE "select-cover"
    /\ UNCHANGED << appVars, uiVars, intake, run, callVars, log, pdfDoc, gestureVars,
                    renderVars >>

\* nothing of App.vue changes
NoEmit == UNCHANGED << appVars, uiVars, intake, run, callVars, log, mode >>

\* emit('source-selected', r): onSourceSelected(r) (App.vue line 114)
EmitSourceSelected(r, by) ==
    /\ SetSourceRect(r)
    /\ mode' = "idle"
    /\ emitted' = [ev |-> "source-selected", arg |-> r, by |-> by, mode |-> mode]

\* emit('destination-set', p): onDestinationSet(p) (App.vue line 115)
EmitDestinationSet(p, by) ==
    /\ SetDestPoint(p)
    /\ mode' = "idle"
    /\ emitted' = [ev |-> "destination-set", arg |-> p, by |-> by, mode |-> mode]

\* the button of the pointer goes down at p, at most MaxPresses times
Press(p) ==
    /\ mouse.button = "up"
    /\ mouse.presses < MaxPresses
    /\ mouse' = [button |-> "down", at |-> p, downAt |-> p, downMode |-> mode,
                 upMode |-> "none", presses |-> mouse.presses + 1]

\* the elements of the preview take the pointer: a preview is mounted and the
\* canvas wrapper is shown (line 227)
PreviewShown == pdfDoc # NULL /\ ~isRendering

\* mousedown on the interaction layer, which takes the pointer in the modes of
\* isInteractMode (lines 254-260, CSS .interact.active): onInteractDown (lines 116-127)
OnInteractDown ==
    /\ PreviewShown /\ isInteractMode
    /\ \E p \in MousePts :
         LET c == canvasCoords(p)
         IN  /\ Press(p)
             /\ IF mode = "select-source"
                THEN /\ isDrawing' = TRUE
                     /\ drawStart' = c
                     /\ drawCurrent' = c
                     /\ listeners' = listeners \cup {"onDrawMove", "onDrawUp"}
                     /\ emitted' = NULL
                     /\ NoEmit
                ELSE /\ EmitDestinationSet(Point(pxToMm(c.x, renderInfo),
                                                 pxToMm(c.y, renderInfo)),
                                           "onInteractDown")
                     /\ UNCHANGED << isDrawing, drawStart, drawCurrent, listeners >>
    /\ UNCHANGED << pdfDoc, isDragging, dragState, dragRect, renderVars >>

\* startDrag(which, type, handle, e) (lines 156-168)
startDrag(which, type, handle, p) ==
    LET c == canvasCoords(p)
        orig == IF which = "source" THEN srcPx ELSE dstPxNow
    IN  /\ isDragging' = TRUE
        /\ dragState' = [type |-> type, which |-> which, handle |-> handle,
                         startX |-> c.x, startY |-> c.y, orig |-> orig]
        /\ dragRect' = [which |-> which, left |-> orig.left, top |-> orig.top,
                        width |-> orig.width, height |-> orig.height]
        /\ listeners' = listeners \cup {"onDragMove", "onDragEnd"}
        /\ emitted' = NULL
        /\ NoEmit
        /\ UNCHANGED << pdfDoc, isDrawing, drawStart, drawCurrent, renderVars >>

\* mousedown on the source or the destination overlay (lines 232-234, 244-246),
\* which take the pointer while isIdle (CSS .rect.interactive): onRectDown
\* (lines 147-150)
OnRectDown ==
    /\ PreviewShown /\ isIdle
    /\ \E p \in MousePts, which \in {"source", "dest"} :
         /\ (IF which = "source" THEN srcStyle ELSE dstStyle) # NULL
         /\ Press(p)
         /\ startDrag(which, "move", NULL, p)

\* mousedown on a handle of the source overlay, in the page while isIdle (lines
\* 236-239): onHandleDown (lines 151-154)
OnHandleDown ==
    /\ PreviewShown /\ isIdle
    /\ srcStyle # NULL
    /\ \E p \in MousePts, h \in HANDLES :
         /\ Press(p)
         /\ startDrag("source", "resize", h, p)

\* the button goes down where no element of the preview takes it
PressElsewhere ==
    /\ \E p \in MousePts : Press(p)
    /\ emitted' = NULL
    /\ NoEmit
    /\ UNCHANGED << pdfDoc, isDrawing, drawStart, drawCurrent, isDragging, dragState,
                    dragRect, listeners, renderVars >>

\* onDragMove without the clamp to the canvas
Mut_DragToUnclamped(ds, c) ==
    LET dx == c.x - ds.startX
        dy == c.y - ds.startY
        h == ds.handle
        mv == ds.type = "move"
        left1 == IF mv \/ Includes(h, "w") THEN ds.orig.left + dx ELSE ds.orig.left
        width1 == IF mv THEN ds.orig.width
                  ELSE IF Includes(h, "w") THEN ds.orig.width - dx
                  ELSE IF Includes(h, "e") THEN ds.orig.width + dx
                  ELSE ds.orig.width
        top1 == IF mv \/ Includes(h, "n") THEN ds.orig.top + dy ELSE ds.orig.top
        height1 == IF mv THEN ds.orig.height
                   ELSE IF Includes(h, "n") THEN ds.orig.height - dy
                   ELSE IF Includes(h, "s") THEN ds.orig.height + dy
                   ELSE ds.orig.height
    IN  [which |-> ds.which,
         left |-> IF width1 < Px(MIN) /\ ~mv /\ Includes(h, "w")
                  THEN ds.orig.left + ds.orig.width - Px(MIN) ELSE left1,
         top |-> IF height1 < Px(MIN) /\ ~mv /\ Includes(h, "n")
                 THEN ds.orig.top + ds.orig.height - Px(MIN) ELSE top1,
         width |-> IF width1 < Px(MIN) THEN Px(MIN) ELSE width1,
         height |-> IF height1 < Px(MIN) THEN Px(MIN) ELSE height1]

\* onDragMove(e) (lines 170-199): the rectangle dragged or resized to the pointer
DragTo(ds, c) ==
    LET dx == c.x - ds.startX
        dy == c.y - ds.startY
        h == ds.handle
        mv == ds.type = "move"
        left1 == IF mv \/ Includes(h, "w") THEN ds.orig.left + dx ELSE ds.orig.left
        width1 == IF mv THEN ds.orig.width
                  ELSE IF Includes(h, "w") THEN ds.orig.width - dx
                  ELSE IF Includes(h, "e") THEN ds.orig.width + dx
                  ELSE ds.orig.width
        top1 == IF mv \/ Includes(h, "n") THEN ds.orig.top + dy ELSE ds.orig.top
        height1 == IF mv THEN ds.orig.height
                   ELSE IF Includes(h, "n") THEN ds.orig.height - dy
                   ELSE IF Includes(h, "s") THEN ds.orig.height + dy
                   ELSE ds.orig.height
        width2 == IF width1 < Px(MIN) THEN Px(MIN) ELSE width1
        left2 == IF width1 < Px(MIN) /\ ~mv /\ Includes(h, "w")
                 THEN ds.orig.left + ds.orig.width - Px(MIN) ELSE left1
        height2 == IF height1 < Px(MIN) THEN Px(MIN) ELSE height1
        top2 == IF height1 < Px(MIN) /\ ~mv /\ Includes(h, "n")
                THEN ds.orig.top + ds.orig.height - Px(MIN) ELSE top1
        cw == IF pdfCanvas = NULL THEN Px(9999) ELSE Px(pdfCanvas.width)
        ch == IF pdfCanvas = NULL THEN Px(9999) ELSE Px(pdfCanvas.height)
    IN  [which |-> ds.which,
         left |-> Max(0, Min(left2, cw - width2)),
         top |-> Max(0, Min(top2, ch - height2)),
         width |-> width2, height |-> height2]

\* the pointer moves to p: the mousemove listeners on window run, onDrawMove
\* (line 128) and onDragMove (lines 170-199)
MouseMove ==
    /\ mouse.button = "down" \/ listeners # {}
    /\ \E p \in MousePts :
         /\ p # mouse.at
         /\ mouse' = [mouse EXCEPT !.at = p]
         /\ drawCurrent' = IF "onDrawMove" \in listeners /\ isDrawing
                           THEN canvasCoords(p) ELSE drawCurrent
         /\ dragRect' = IF "onDragMove" \in listeners /\ dragState # NULL
                        THEN DragTo(dragState, canvasCoords(p)) ELSE dragRect
    /\ NoEmit
    /\ UNCHANGED << pdfDoc, isDrawing, drawStart, isDragging, dragState, listeners,
                    emitted, renderVars >>

\* the button comes up
Release == mouse.button = "down" /\ mouse' = [mouse EXCEPT !.button = "up", !.upMode = mode]

\* the corners taken as pressed and released, without Math.min and Math.max
Mut_DrawnBoxAsDragged ==
    [x1 |-> drawStart.x, y1 |-> drawStart.y, x2 |-> drawCurrent.x, y2 |-> drawCurrent.y]

\* the rectangle between drawStart and drawCurrent (lines 132-135)
DrawnBox ==
    [x1 |-> Min(drawStart.x, drawCurrent.x), y1 |-> Min(drawStart.y, drawCurrent.y),
     x2 |-> Max(drawStart.x, drawCurrent.x), y2 |-> Max(drawStart.y, drawCurrent.y)]

\* the mouseup listener onDrawUp runs (lines 129-144)
OnDrawUp ==
    /\ "onDrawUp" \in listeners /\ "onDragEnd" \notin listeners
    /\ Release
    /\ IF isDrawing
       THEN /\ isDrawing' = FALSE
            /\ drawStart' = NULL
            /\ drawCurrent' = NULL
            /\ IF /\ drawStart # NULL /\ drawCurrent # NULL
                  /\ DrawnBox.x2 - DrawnBox.x1 > Px(MIN)
                  /\ DrawnBox.y2 - DrawnBox.y1 > Px(MIN)
               THEN EmitSourceSelected(
                        Rect(pxToMm(DrawnBox.x1, renderInfo), pxToMm(DrawnBox.y1, renderInfo),
                             pxToMm(DrawnBox.x2 - DrawnBox.x1, renderInfo),
                             pxToMm(DrawnBox.y2 - DrawnBox.y1, renderInfo)),
                        "onDrawUp")
               ELSE emitted' = NULL /\ NoEmit
       ELSE /\ emitted' = NULL
            /\ NoEmit
            /\ UNCHANGED << isDrawing, drawStart, drawCurrent >>
    /\ listeners' = listeners \ {"onDrawMove", "onDrawUp"}
    /\ UNCHANGED << pdfDoc, isDragging, dragState, dragRect, renderVars >>

\* the mouseup listener onDragEnd runs (lines 201-213)
OnDragEnd ==
    /\ "onDragEnd" \in listeners /\ "onDrawUp" \notin listeners
    /\ Release
    /\ IF dragRect # NULL
       THEN IF dragRect.which = "source"
            THEN EmitSourceSelected(
                     Rect(pxToMm(dragRect.left, renderInfo), pxToMm(dragRect.top, renderInfo),
                          pxToMm(dragRect.width, renderInfo),
                          pxToMm(dragRect.height, renderInfo)),
                     "onDragEnd")
            ELSE EmitDestinationSet(Point(pxToMm(dragRect.left, renderInfo),
                                          pxToMm(dragRect.top, renderInfo)),
                                    "onDragEnd")
       ELSE emitted' = NULL /\ NoEmit
    /\ isDragging' = FALSE
    /\ dragState' = NULL
    /\ dragRect' = NULL
    /\ listeners' = listeners \ {"onDragMove", "onDragEnd"}
    /\ UNCHANGED << pdfDoc, isDrawing, drawStart, drawCurrent, renderVars >>

\* the button comes up with no mouseup listener of the preview on window
ReleaseElsewhere ==
    /\ "onDrawUp" \notin listeners /\ "onDragEnd" \notin listeners
    /\ Release
    /\ emitted' = NULL
    /\ NoEmit
    /\ UNCHANGED << pdfDoc, isDrawing, drawStart, drawCurrent, isDragging, dragState,
                    dragRect, listeners, renderVars >>

\* render(): maxW (line 89)
MaxW(cw) == Max(400, Min(cw - 40, 1400))

\* renderPageToCanvas: scale = Math.min(maxWidth / base.width, 2) (line 30), kept
\* to hundredths
ScaleOf(d, maxW) == Min((maxW * 100 * PtDen) \div PageOf(d).width, 200)

\* renderPageToCanvas lines 33-37: the canvas takes the size of the viewport (a
\* canvas dimension is an integer) and is cleared
SizedCanvas(d, scale) ==
    [width |-> (PageOf(d).width * scale) \div (100 * PtDen),
     height |-> (PageOf(d).height * scale) \div (100 * PtDen),
     doc |-> d, scale |-> scale, painted |-> << >>]

\* the value renderPageToCanvas returns (line 40)
InfoOf(d, scale) ==
    [scale |-> scale, pdfWidthPt |-> PageOf(d).width, pdfHeightPt |-> PageOf(d).height]

\* <canvas> as created: 300 x 150, nothing drawn (no document, no scale: 0)
BlankCanvas == [width |-> 300, height |-> 150, doc |-> 0, scale |-> 0, painted |-> << >>]

\* render() up to its await (lines 86-90, pdfProcessor.js line 28): at most
\* MaxRenders calls are in flight
StartRender(d) ==
    /\ Len(renders) < MaxRenders
    /\ isRendering' = TRUE
    /\ renders' = Append(renders, [doc |-> d, maxW |-> MaxW(clientWidth), at |-> "getPage",
                                   scale |-> 0])

\* a file becomes active where none was: the preview is mounted (App.vue lines
\* 323-334) and onMounted calls render() (line 103)
Mount ==
    /\ pdfDoc = NULL /\ Truthy(activePdf)
    /\ pdfDoc' = activePdf
    /\ FreshGesture
    /\ renderInfo' = NULL
    /\ pdfCanvas' = BlankCanvas
    /\ rTimer' = FALSE
    /\ StartRender(activePdf.doc)
    /\ UNCHANGED << appVars, uiVars, intake, run, callVars, log, mode, mouse, clientWidth >>

\* no file is active any more: the preview is unmounted (lines 104-114); its
\* calls in flight act on a component that is gone
Unmount ==
    /\ pdfDoc # NULL /\ ~Truthy(activePdf)
    /\ pdfDoc' = NULL
    /\ FreshGesture
    /\ renderInfo' = NULL
    /\ isRendering' = FALSE
    /\ pdfCanvas' = NULL
    /\ renders' = << >>
    /\ rTimer' = FALSE
    /\ UNCHANGED << appVars, uiVars, intake, run, callVars, log, mode, mouse, clientWidth >>

\* another file has become active: the watcher of props.pdfDoc calls render()
\* (line 100)
WatchPdfDoc ==
    /\ pdfDoc # NULL /\ Truthy(activePdf) /\ pdfDoc # activePdf
    /\ pdfDoc' = activePdf
    /\ StartRender(activePdf.doc)
    /\ UNCHANGED << appVars, uiVars, intake, run, callVars, log, mode, gestureVars,
                    renderInfo, pdfCanvas, rTimer, clientWidth >>

\* the window is resized (lines 101-102): the container takes another width and
\* the timer is set again
OnResize ==
    /\ pdfDoc # NULL
    /\ \E w \in ContainerWidths : w # clientWidth /\ clientWidth' = w
    /\ rTimer' = TRUE
    /\ UNCHANGED << appVars, uiVars, intake, run, callVars, log, mode, pdfDoc, gestureVars,
                    renderInfo, isRendering, pdfCanvas, renders >>

\* the timer of onResize fires after 200 ms: render()
ResizeTimer ==
    /\ rTimer
    /\ rTimer' = FALSE
    /\ StartRender(pdfDoc.doc)
    /\ UNCHANGED << appVars, uiVars, intake, run, callVars, log, mode, pdfDoc, gestureVars,
                    renderInfo, pdfCanvas, clientWidth >>

\* the list without its k-th entry
Without(q, k) == SubSeq(q, 1, k - 1) \o SubSeq(q, k + 1, Len(q))


\* pdfDoc.getPage of a render() call settles (pdfProcessor.js line 28): the scale
\* is computed and the canvas sized and cleared (lines 29-37), page.render is
\* awaited; or the call fails and render() resets isRendering (PdfPreview.vue
\* lines 96-97)
R_GetPage ==
    /\ \E k \in 1..Len(renders), ok \in BOOLEAN :
         /\ renders[k].at = "getPage"
         /\ IF ok
            THEN LET sc == ScaleOf(renders[k].doc, renders[k].maxW)
                 IN  /\ pdfCanvas' = SizedCanvas(renders[k].doc, sc)
                     /\ renders' = [renders EXCEPT ![k].at = "render", ![k].scale = sc]
                     /\ UNCHANGED isRendering
            ELSE /\ renders' = Without(renders, k)
                 /\ isRendering' = FALSE
                 /\ UNCHANGED pdfCanvas
    /\ UNCHANGED << appVars, uiVars, intake, run, callVars, log, mode, pdfDoc, gestureVars,
                    renderInfo, rTimer, clientWidth >>

\* page.render of a render() call settles (pdfProcessor.js line 38): the page is
\* on the canvas, renderInfo is set (PdfPreview.vue line 91) and isRendering reset;
\* or the call fails
R_Render ==
    /\ \E k \in 1..Len(renders), ok \in BOOLEAN :
         /\ renders[k].at = "render"
         /\ IF ok
            THEN /\ pdfCanvas' = [pdfCanvas EXCEPT !.painted =
                                    Append(@, [doc |-> renders[k].doc,
                                               scale |-> renders[k].scale])]
                 /\ renderInfo' = InfoOf(renders[k].doc, renders[k].scale)
            ELSE UNCHANGED << pdfCanvas, renderInfo >>
         /\ renders' = Without(renders, k)
         /\ isRendering' = FALSE
    /\ UNCHANGED << appVars, uiVars, intake, run, callVars, log, mode, pdfDoc, gestureVars,
                    rTimer, clientWidth >>

----------------------------------------------------------------------------
(* Specifications *)

\* the texts the local-storage keys hold when the page is opened, written by an
\* earlier session (NULL for an absent key)
StoredSrc == {Stored(v) : v \in {NULL} \cup DrawnRects}
StoredDst == {Stored(v) : v \in {NULL} \cup DestPoints}
StoredCov == {Stored(v) : v \in {NULL} \cup CoverRects}

\* the state once the component is mounted (lines 7-40): the refs at their initial
\* values, then the three keys read from local storage
Init ==
    /\ NoPreview
    /\ ls \in [src : StoredSrc, dst : StoredDst, cov : StoredCov]
    /\ sourceRect = LoadStored(ls.src)
    /\ destPoint = LoadStored(ls.dst)
    /\ coverRect = LoadStored(ls.cov)
    /\ files = << >>
    /\ activeIdx = -1
    /\ processing = FALSE
    /\ progressText = << >>
    /\ error = << >>
    /\ doneTimers = 0
    /\ intake = NULL
    /\ run = NULL
    /\ pp = "idle"
    /\ call = NULL
    /\ canvas = NULL
    /\ ops = << >>
    /\ log = << >>

\* the page is reloaded: the component is set up and mounted again (lines 7-40).
\* Every ref starts afresh, whatever was in flight is gone, and the three keys
\* are read; the watchers of the refs that were set run and write the keys back
\* (lines 42-59, no file is active).
Reload ==
    /\ mode' = "idle"
    /\ pdfDoc' = NULL
    /\ FreshGesture
    /\ renderInfo' = NULL
    /\ isRendering' = FALSE
    /\ pdfCanvas' = NULL
    /\ renders' = << >>
    /\ rTimer' = FALSE
    /\ UNCHANGED << mouse, clientWidth >>
    /\ sourceRect' = LoadStored(ls.src)
    /\ destPoint' = LoadStored(ls.dst)
    /\ coverRect' = LoadStored(ls.cov)
    /\ ls' = [src |-> Stored(LoadStored(ls.src)),
              dst |-> Stored(LoadStored(ls.dst)),
              cov |-> Stored(LoadStored(ls.cov))]
    /\ files' = << >>
    /\ activeIdx' = -1
    /\ processing' = FALSE
    /\ progressText' = << >>
    /\ error' = << >>
    /\ doneTimers' = 0
    /\ intake' = NULL
    /\ run' = NULL
    /\ pp' = "idle"
    /\ call' = NULL
    /\ canvas' = NULL
    /\ ops' = << >>
    /\ log' = << [ev |-> "mounted", read |-> ls] >>

\* the steps of a processing run
RunStep ==
    \/ P_GetPage \/ P_Render \/ P_ToBlob \/ P_ArrayBuffer \/ P_Load \/ P_EmbedPng
    \/ P_Save \/ P_Delay

Next ==
    \/ OnFilesAdded \/ IntakeStep
    \/ SelectFile \/ RemoveFile \/ ClearFiles \/ ApplyToAll
    \/ OnSourceSelected \/ EditSourceRect \/ OnDestinationSet \/ EditDestPoint
    \/ EditCoverRect \/ ClearCover \/ ResetSettings \/ DismissError
    \/ ProcessCurrent \/ ProcessAll \/ RunStep \/ DoneTimer
    \/ ToggleSelectSource \/ ToggleSetDestination \/ ToggleSelectCover
    \/ OnInteractDown \/ OnRectDown \/ OnHandleDown \/ PressElsewhere
    \/ MouseMove \/ OnDrawUp \/ OnDragEnd \/ ReleaseElsewhere
    \/ Mount \/ Unmount \/ WatchPdfDoc \/ OnResize \/ ResizeTimer
    \/ R_GetPage \/ R_Render
    \/ Reload

Spec == Init /\ [][Next]_vars

\* processPdf alone: one file in the list, its coordinates drawn from the sets
\* above (typed into the number inputs), and the user only presses
\* "Process Current File"
InitPdf ==
    /\ NoPreview
    /\ \E d \in 1..MaxDocs, s \in PdfSrcRects, p \in PdfDestPoints, c \in PdfCoverRects :
         /\ files = << FileEntry(d, s, p, c) >>
         /\ sourceRect = s
         /\ destPoint = p
         /\ coverRect = c
         /\ ls = [src |-> Stored(s), dst |-> Stored(p), cov |-> Stored(c)]
    /\ activeIdx = 0
    /\ processing = FALSE
    /\ progressText = << >>
    /\ error = << >>
    /\ doneTimers = 0
    /\ intake = NULL
    /\ run = NULL
    /\ pp = "idle"
    /\ call = NULL
    /\ canvas = NULL
    /\ ops = << >>
    /\ log = << >>

NextPdf ==
    \/ ProcessCurrent
    \/ P_GetPage \/ P_Render \/ P_ToBlob \/ P_ArrayBuffer \/ P_Load \/ P_EmbedPng \/ P_Save

SpecPdf == InitPdf /\ [][NextPdf]_vars

\* the download name: one file in the list, one of the documents 1..MaxNameCode,
\* with coordinates inside its page, and the user presses "Process Current File"
InitName ==
    /\ NoPreview
    /\ \E d \in 1..MaxNameCode :
         files = << FileEntry(d, Rect(100, 100, 400, 150), Point(100, 1500), NULL) >>
    /\ sourceRect = Rect(100, 100, 400, 150)
    /\ destPoint = Point(100, 1500)
    /\ coverRect = NULL
    /\ ls = [src |-> Stored(sourceRect), dst |-> Stored(destPoint), cov |-> NULL]
    /\ activeIdx = 0
    /\ processing = FALSE
    /\ progressText = << >>
    /\ error = << >>
    /\ doneTimers = 0
    /\ intake = NULL
    /\ run = NULL
    /\ pp = "idle"
    /\ call = NULL
    /\ canvas = NULL
    /\ ops = << >>
    /\ log = << >>

SpecName == InitName /\ [][NextPdf]_vars

----------------------------------------------------------------------------
(* Processing runs: a file list as the user has set it up, on which the user  *)
(* starts runs; while a run is in flight the user goes on using the list.     *)

\* the coordinates of a file of the list: ready, ready with a source of zero
\* width, lacking the destination, lacking both
FileProfiles ==
    { [src |-> s, dst |-> p, cov |-> NULL] : s \in TypedRects, p \in DestPoints }
    \cup { [src |-> s, dst |-> NULL, cov |-> NULL] : s \in DrawnRects }
    \cup { [src |-> NULL, dst |-> NULL, cov |-> NULL] }

\* the lists of the documents 1..n, in this order, each with one of the profiles
ListsOf(n) ==
    { [k \in 1..n |-> FileEntry(k, q[k].src, q[k].dst, q[k].cov)] :
        q \in [1..n -> FileProfiles] }

\* a list of one to MaxDocs files, one of them active with the working coordinates
\* equal to its own, and local storage holding the last values written
InitBatch ==
    /\ NoPreview
    /\ files \in UNION { ListsOf(n) : n \in 1..MaxDocs }
    /\ activeIdx \in 0..(Len(files) - 1)
    /\ sourceRect = files[activeIdx + 1].sourceRect
    /\ destPoint = files[activeIdx + 1].destPoint
    /\ coverRect = files[activeIdx + 1].coverRect
    /\ ls = [src |-> Stored(sourceRect), dst |-> Stored(destPoint), cov |-> Stored(coverRect)]
    /\ processing = FALSE
    /\ progressText = << >>
    /\ error = << >>
    /\ doneTimers = 0
    /\ intake = NULL
    /\ run = NULL
    /\ pp = "idle"
    /\ call = NULL
    /\ canvas = NULL
    /\ ops = << >>
    /\ log = << >>

\* the user acts on the list and the coordinates while a run is in flight, at
\* most MaxUserOps times
UserMayAct == run # NULL /\ run.userOps < MaxUserOps
Run_SelectFile == UserMayAct /\ SelectFile
Run_RemoveFile == UserMayAct /\ RemoveFile
Run_ClearFiles == UserMayAct /\ ClearFiles
Run_ResetSettings == UserMayAct /\ ResetSettings

\* the user starts one run
Run_ProcessCurrent == log = << >> /\ ProcessCurrent
Run_ProcessAll == log = << >> /\ ProcessAll

NextBatch ==
    \/ Run_ProcessCurrent \/ Run_ProcessAll \/ RunStep \/ DoneTimer
    \/ Run_SelectFile \/ Run_RemoveFile \/ Run_ClearFiles \/ Run_ResetSettings

SpecBatch == InitBatch /\ [][NextBatch]_vars

\* Runs one after the other: the user starts a run whenever the buttons allow it,
\* and every awaited call of a run in flight eventually settles (the library
\* calls resolve or reject, the 400 ms timer fires).
NextLive ==
    \/ ProcessCurrent \/ ProcessAll \/ RunStep \/ DoneTimer
    \/ Run_SelectFile \/ Run_RemoveFile \/ Run_ClearFiles \/ Run_ResetSettings

SpecLive == InitBatch /\ [][NextLive]_vars /\ WF_vars(RunStep)

----------------------------------------------------------------------------
(* Intake: the user drops lists of documents on the page as it was opened,    *)
(* selects files while they are read, and takes files out of the list between *)
(* two drops.                                                                 *)

Idle_RemoveFile == ~IntakeInFlight /\ RemoveFile

NextIntake ==
    \/ OnFilesAdded \/ IntakeStep \/ SelectFile \/ Idle_RemoveFile \/ DismissError

SpecIntake == Init /\ [][NextIntake]_vars

----------------------------------------------------------------------------
(* Coordinates: the user drops documents, selects and removes files, draws,   *)
(* types and resets coordinates, and reloads the page.                        *)

\* the page as it was opened, after the user has dropped the documents 1..n, all
\* of which loaded: every file has the coordinates read from local storage
\* (lines 64-66, 74-76) and the first one is active (line 80)
InitEdit ==
    /\ NoPreview
    /\ ls \in [src : StoredSrc, dst : StoredDst, cov : StoredCov]
    /\ sourceRect = LoadStored(ls.src)
    /\ destPoint = LoadStored(ls.dst)
    /\ coverRect = LoadStored(ls.cov)
    /\ \E n \in 0..MaxEditFiles :
         /\ files = [k \in 1..n |-> FileEntry(k, CopyOrNull(sourceRect),
                                                CopyOrNull(destPoint),
                                                CopyOrNull(coverRect))]
         /\ activeIdx = IF n = 0 THEN -1 ELSE 0
    /\ processing = FALSE
    /\ progressText = << >>
    /\ error = << >>
    /\ doneTimers = 0
    /\ intake = NULL
    /\ run = NULL
    /\ pp = "idle"
    /\ call = NULL
    /\ canvas = NULL
    /\ ops = << >>
    /\ log = << >>

NextEdit ==
    \/ SelectFile \/ RemoveFile \/ ClearFiles \/ ApplyToAll
    \/ OnSourceSelected \/ EditSourceRect \/ OnDestinationSet \/ EditDestPoint
    \/ EditCoverRect \/ ClearCover \/ ResetSettings
    \/ Reload

SpecEdit == InitEdit /\ [][NextEdit]_vars

----------------------------------------------------------------------------
(* Gestures: one file is loaded and shown in the preview; the user presses the *)
(* mode buttons and uses the pointer on the preview.                           *)

\* the preview of document d has been rendered in a container w wide
Rendered(d, w) ==
    /\ pdfDoc = [doc |-> d]
    /\ clientWidth = w
    /\ renderInfo = InfoOf(d, ScaleOf(d, MaxW(w)))
    /\ pdfCanvas = [SizedCanvas(d, ScaleOf(d, MaxW(w))) EXCEPT !.painted =
                        << [doc |-> d, scale |-> ScaleOf(d, MaxW(w))] >>]
    /\ isRendering = FALSE
    /\ renders = << >>
    /\ rTimer = FALSE

\* no gesture has begun
GestureAtRest ==
    /\ isDrawing = FALSE
    /\ drawStart = NULL
    /\ drawCurrent = NULL
    /\ isDragging = FALSE
    /\ dragState = NULL
    /\ dragRect = NULL
    /\ listeners = {}
    /\ emitted = NULL
    /\ mouse = MouseAtRest

\* the state of App.vue with the list fs, its file i active
Loaded(fs, i) ==
    /\ files = fs
    /\ activeIdx = i
    /\ sourceRect = fs[i + 1].sourceRect
    /\ destPoint = fs[i + 1].destPoint
    /\ coverRect = fs[i + 1].coverRect
    /\ ls = [src |-> Stored(sourceRect), dst |-> Stored(destPoint), cov |-> Stored(coverRect)]
    /\ processing = FALSE
    /\ progressText = << >>
    /\ error = << >>
    /\ doneTimers = 0
    /\ intake = NULL
    /\ run = NULL
    /\ pp = "idle"
    /\ call = NULL
    /\ canvas = NULL
    /\ ops = << >>
    /\ log = << >>

InitGesture ==
    /\ \E fs \in ListsOf(1) : Loaded(fs, 0)
    /\ mode = "idle"
    /\ \E w \in ContainerWidths : Rendered(1, w)
    /\ GestureAtRest

NextGesture ==
    \/ ToggleSelectSource \/ ToggleSetDestination \/ ToggleSelectCover
    \/ OnInteractDown \/ OnRectDown \/ OnHandleDown \/ PressElsewhere
    \/ MouseMove \/ OnDrawUp \/ OnDragEnd \/ ReleaseElsewhere

SpecGesture == InitGesture /\ [][NextGesture]_vars

----------------------------------------------------------------------------
(* Units: a file whose coordinates are any number of tenths of a millimetre up  *)
(* to MaxMm is shown at one of the render scales; the user presses on an        *)
(* overlay and lets go, so that the preview converts the overlay's pixels back  *)
(* to millimetres.                                                              *)

InitUnits ==
    /\ \E m \in 0..MaxMm, d \in 1..MaxDocs, w \in ContainerWidths :
         /\ Loaded(<< FileEntry(d, Rect(m, MaxMm - m, m, MaxMm - m),
                                Point(MaxMm - m, m), NULL) >>, 0)
         /\ Rendered(d, w)
    /\ mode = "idle"
    /\ GestureAtRest

NextUnits == OnRectDown \/ OnDragEnd

SpecUnits == InitUnits /\ [][NextUnits]_vars

----------------------------------------------------------------------------
(* Adding files: the user draws, types and resets coordinates, drops a list   *)
(* of documents and selects files, also while the documents are being read.    *)

\* the one drop, of at most MaxEditFiles documents
First_OnFilesAdded == intake = NULL /\ OnFilesAdded /\ Len(intake'.queue) <= MaxEditFiles

NextAdd ==
    \/ First_OnFilesAdded \/ IntakeStep \/ SelectFile
    \/ OnSourceSelected \/ EditSourceRect \/ OnDestinationSet \/ EditDestPoint
    \/ ResetSettings

SpecAdd == Init /\ [][NextAdd]_vars

----------------------------------------------------------------------------
(* The list: on a list of up to MaxDocs files the user selects and removes     *)
(* files, clears the list, applies the working coordinates to all files,       *)
(* draws, types, places and resets.                                            *)

NextList ==
    \/ SelectFile \/ RemoveFile \/ ClearFiles \/ ApplyToAll
    \/ OnSourceSelected \/ EditSourceRect \/ OnDestinationSet \/ EditDestPoint
    \/ ResetSettings

SpecList == InitBatch /\ [][NextList]_vars

----------------------------------------------------------------------------
(* Rendering: two files are loaded, an A4 and an A5 page; the preview is       *)
(* mounted, the user selects files, resizes the window and clears the list     *)
(* while render() calls are in flight.                                         *)

InitRender ==
    /\ Loaded(<< FileEntry(1, NULL, NULL, NULL), FileEntry(2, NULL, NULL, NULL) >>, 0)
    /\ mode = "idle"
    /\ pdfDoc = NULL
    /\ GestureAtRest
    /\ renderInfo = NULL
    /\ isRendering = FALSE
    /\ pdfCanvas = NULL
    /\ renders = << >>
    /\ rTimer = FALSE
    /\ clientWidth = 840

NextRender ==
    \/ Mount \/ Unmount \/ WatchPdfDoc \/ OnResize \/ ResizeTimer \/ R_GetPage \/ R_Render
    \/ SelectFile \/ ClearFiles

SpecRender == InitRender /\ [][NextRender]_vars

----------------------------------------------------------------------------
(* Drags: one file is loaded and rendered, with a source rectangle and a       *)
(* destination point; the user presses on an overlay or on a handle of the     *)
(* source overlay, moves the pointer and lets go.                              *)

\* source rectangles, in tenths of a millimetre: one 2 mm wide and high, one
\* whose right edge, and one whose inside, is under the pointer at a render
\* scale of 1.34
DragRects == { Rect(255, 255, 20, 20), Rect(100, 163, 170, 200), Rect(200, 200, 700, 400) }

InitDrag ==
    /\ \E s \in DragRects, w \in ContainerWidths :
         /\ Loaded(<< FileEntry(1, s, Point(200, 200), NULL) >>, 0)
         /\ Rendered(1, w)
    /\ mode = "idle"
    /\ GestureAtRest

NextDrag == OnRectDown \/ OnHandleDown \/ MouseMove \/ OnDragEnd

SpecDrag == InitDrag /\ [][NextDrag]_vars

----------------------------------------------------------------------------
(* The list: the user drops documents, and selects, removes and clears files,  *)
(* also while the documents dropped are still being read.                      *)

NextFiles == OnFilesAdded \/ IntakeStep \/ SelectFile \/ RemoveFile \/ ClearFiles

SpecFiles == Init /\ [][NextFiles]_vars

----------------------------------------------------------------------------
(* What the claims speak about *)

\* the processPdf calls on record: the one in flight, and those of the log, each
\* with its arguments and the writer calls it made
Calls ==
    (IF call = NULL THEN {} ELSE { << call, ops >> })
    \cup { << log[k].call, log[k].result >> : k \in {n \in 1..Len(log) : log[n].ev = "download"} }
    \cup { << log[k].call, log[k].ops >> :
             k \in {n \in 1..Len(log) : log[n].ev = "fail" /\ log[n].call # NULL} }

\* the calls that returned their bytes, which were downloaded
Downloaded ==
    { << log[k].call, log[k].result >> : k \in {n \in 1..Len(log) : log[n].ev = "download"} }

\* the writer calls of the given kind among o, in order
OpsOf(o, kind) == SelectSeq(o, LAMBDA e : e.op = kind)

\* the names of the writer calls o, in order
OpNames(o) == [k \in 1..Len(o) |-> o[k].op]

\* p is a prefix of q
IsPrefix(p, q) == Len(p) <= Len(q) /\ \A k \in 1..Len(p) : p[k] = q[k]

\* the page height H processPdf reads from the loaded document of call c
HeightOf(c) == MmToPtNum * PageHeightMm(c.doc)

----------------------------------------------------------------------------
(* C1..C7: processPdf, checked under SpecPdf *)

\* C1: the image drawn at the destination has the source rectangle's width and
\* height in points (srcMm.width * MM_TO_PT, srcMm.height * MM_TO_PT) in every
\* call, whatever the destination point is: two calls on record with the same
\* source draw the same size, and the preview's destination overlay has the
\* source rectangle's pixel size at every render scale.
C1_DestinationSize ==
    /\ \A co \in Calls :
         \A k \in 1..Len(co[2]) :
            co[2][k].op = "drawImage" =>
               \* W / PtDen points = (t / 10) mm * 72 / 25.4
               /\ co[2][k].width * 2540 = co[1].srcMm.width * 720 * PtDen
               /\ co[2][k].height * 2540 = co[1].srcMm.height * 720 * PtDen
    /\ (Truthy(sourceRect) /\ Truthy(destPoint)) =>
         \A sc \in RenderScales :
            /\ dstPx(destPoint, sourceRect, sc).width = sourceRect.width * MmToPtNum * sc
            /\ dstPx(destPoint, sourceRect, sc).height = sourceRect.height * MmToPtNum * sc
            /\ \A d \in PdfDestPoints :
                  /\ dstPx(d, sourceRect, sc).width = dstPx(destPoint, sourceRect, sc).width
                  /\ dstPx(d, sourceRect, sc).height = dstPx(destPoint, sourceRect, sc).height

\* C1 witness: a call that returned, with a destination away from the source, has
\* drawn its image
C1_Witness ==
    \E co \in Downloaded :
       /\ co[1].srcMm = Rect(105, 2200, 855, 770)
       /\ co[1].dstMm = Point(1205, 35)
       /\ Len(OpsOf(co[2], "drawImage")) = 1

\* the writer calls of a complete processPdf call, by name, with or without cover
ExpectedNames(c) ==
    << "load", "drawRectangle" >>
       \o (IF c.coverRect # NULL THEN << "drawRectangle" >> ELSE << >>)
       \o << "embedPng", "drawImage", "save" >>

\* C2: the steps of processPdf come in the order capture, load, source white-out,
\* cover white-out (if any), embed, draw image, save: the writer is first called
\* when the capture is complete, the writer calls made so far are a prefix of
\* that order, every drawRectangle precedes the drawImage, and a downloaded
\* result holds the whole order.
C2_StepOrder ==
    /\ (call # NULL /\ ops # << >>) => (canvas # NULL /\ canvas.png = "bytes")
    /\ (call # NULL /\ pp \in {"getPage", "render", "toBlob", "arrayBuffer"}) => ops = << >>
    /\ \A co \in Calls :
         /\ IsPrefix(OpNames(co[2]), ExpectedNames(co[1]))
         /\ \A a, b \in 1..Len(co[2]) :
               (co[2][a].op = "drawRectangle" /\ co[2][b].op = "drawImage") => a < b
    /\ \A co \in Downloaded : OpNames(co[2]) = ExpectedNames(co[1])

\* C2 witness: a call whose destination lies on its source, with a cover, returned
C2_Witness ==
    \E co \in Downloaded :
       /\ co[1].srcMm = Rect(100, 100, 400, 150)
       /\ co[1].dstMm = Point(100, 100)
       /\ co[1].coverRect # NULL

\* C3: the image is drawn at x = dstMm.x * MM_TO_PT and, from the bottom of the
\* page, y = H - (dstMm.y + srcMm.height) * MM_TO_PT; the source and the cover
\* white-out lie at y = H - (rect.y + rect.height) * MM_TO_PT (the source one a
\* pad lower).
C3_DestinationPlacement ==
    \A co \in Calls :
       LET c == co[1]
           H == HeightOf(c)
           imgs == OpsOf(co[2], "drawImage")
           rects == OpsOf(co[2], "drawRectangle")
       IN  /\ \A k \in 1..Len(imgs) :
                /\ imgs[k].x = c.dstMm.x * MmToPtNum
                /\ imgs[k].y = H - (c.dstMm.y + c.srcMm.height) * MmToPtNum
           /\ Len(rects) >= 1 =>
                rects[1].y + pad * PtDen = H - (c.srcMm.y + c.srcMm.height) * MmToPtNum
           /\ Len(rects) >= 2 =>
                rects[2].y = H - (c.coverRect.y + c.coverRect.height) * MmToPtNum

\* C3 witness: a call with a cover, on an A5 page, has drawn its image
C3_Witness ==
    \E co \in Calls :
       /\ PageHeightMm(co[1].doc) = 2100
       /\ co[1].coverRect # NULL
       /\ co[1].dstMm = Point(100, 1500)
       /\ Len(OpsOf(co[2], "drawImage")) = 1

\* C4: the first rectangle drawn is the source rectangle in points grown by one
\* point on each side, filled white: x = sX - 1, y = sY - 1, width = sW + 2,
\* height = sH + 2.
C4_SourceWhiteOutPadding ==
    \A co \in Calls :
       LET c == co[1]
           rects == OpsOf(co[2], "drawRectangle")
           sX == c.srcMm.x * MmToPtNum
           sY == HeightOf(c) - (c.srcMm.y + c.srcMm.height) * MmToPtNum
           sW == c.srcMm.width * MmToPtNum
           sH == c.srcMm.height * MmToPtNum
       IN  /\ (Len(co[2]) >= 2) => Len(rects) >= 1
           /\ Len(rects) >= 1 =>
                /\ co[2][2] = rects[1]
                /\ rects[1].x = sX - 1 * PtDen
                /\ rects[1].y = sY - 1 * PtDen
                /\ rects[1].width = sW + 2 * PtDen
                /\ rects[1].height = sH + 2 * PtDen
                /\ rects[1].color = << 1, 1, 1 >>

\* C4 witness: the source white-out of a call on a small rectangle is drawn
C4_Witness ==
    \E co \in Calls :
       /\ co[1].srcMm = Rect(0, 0, 5, 5)
       /\ Len(OpsOf(co[2], "drawRectangle")) >= 1

\* C5: a second white rectangle is drawn exactly when a cover rectangle is given;
\* it is the cover rectangle in points, with no padding; without a cover exactly
\* one white rectangle is drawn.
C5_CoverWhiteOut ==
    \A co \in Calls :
       LET c == co[1]
           rects == OpsOf(co[2], "drawRectangle")
       IN  /\ Len(rects) <= 2
           /\ (Len(rects) = 2) <=> (c.coverRect # NULL /\ Len(co[2]) >= 2)
           /\ (Len(rects) = 1) <=> (c.coverRect = NULL /\ Len(co[2]) >= 2)
           /\ Len(rects) = 2 =>
                /\ rects[2].x = c.coverRect.x * MmToPtNum
                /\ rects[2].y = HeightOf(c) - (c.coverRect.y + c.coverRect.height) * MmToPtNum
                /\ rects[2].width = c.coverRect.width * MmToPtNum
                /\ rects[2].height = c.coverRect.height * MmToPtNum
                /\ rects[2].color = << 1, 1, 1 >>

\* C5 witness: one returned call drew the cover, another, without cover, drew one
\* rectangle only (the two are states of different runs: either is a witness)
C5_Witness ==
    \E co \in Downloaded :
       /\ co[1].coverRect = Rect(0, 2000, 2100, 970)
       /\ Len(OpsOf(co[2], "drawRectangle")) = 2

\* C6 (as claimed): a source rectangle of zero or negative width or height makes
\* the call fail before the document writer is called: such a call makes no
\* writer call and is not downloaded.
C6_InvalidRegionRejected ==
    \A co \in Calls :
       (co[1].srcMm.width <= 0 \/ co[1].srcMm.height <= 0) => co[2] = << >>

\* the crop of call c lies inside the raster of its page
CropInsideRaster(c) ==
    LET crop == CropOf(c.srcMm)
        full == RasterOf(c.doc)
    IN  /\ crop.cx >= 0
        /\ crop.cy >= 0
        /\ crop.cx + crop.cw <= full.width
        /\ crop.cy + crop.ch <= full.height

\* C7 (as claimed): when the crop leaves the raster of the page, even partly, the
\* call fails and no output is produced: every downloaded result comes from a
\* crop inside the raster.
C7_OutOfBoundsRejected ==
    \A co \in Downloaded : CropInsideRaster(co[1])

----------------------------------------------------------------------------
(* C8..C10: processing runs, checked under SpecBatch *)

\* the log of the run after its first entry
RunBody == SubSeq(log, 2, Len(log))

\* the log is that of a processAll run
IsBatchLog == Len(log) >= 1 /\ log[1].ev = "run" /\ log[1].kind = "all"

\* C8: a failure of processPdf, at whichever step (the bytes do not parse, the
\* page is missing, any library call rejects), ends the processing of that
\* document: nothing is downloaded for it.  Every download follows the start of
\* its own call and holds the result of a call that went through all its steps
\* up to save; a failure is the last thing a run does.
C8_FailureIsTerminal ==
    \A k \in 1..Len(log) :
       /\ log[k].ev = "download" =>
            /\ k > 1
            /\ log[k - 1].ev = "start"
            /\ log[k - 1].j = log[k].j
            /\ OpNames(log[k].result) = ExpectedNames(log[k].call)
       /\ log[k].ev = "fail" =>
            /\ k = Len(log)
            /\ run = NULL
            /\ call = NULL
            /\ \A n \in 1..Len(log) : log[n].ev = "download" => log[n].j # log[k].j

\* C8 witness: the second document of a batch failed in PDFDocument.load, after
\* the first one was downloaded
C8_Witness ==
    /\ IsBatchLog
    /\ Len(log) = 5
    /\ log[3].ev = "download"
    /\ log[5].ev = "fail"
    /\ log[5].msg = [e |-> "Error", at |-> "load"]

\* C9 (as claimed): processAll processes exactly the files that have a source
\* rectangle and a destination point when it is called, in ascending list order,
\* one after the other, and passes over the others without error: processOne is
\* called on the ready entries in order, each call but the first right after the
\* download of the one before, each on the file that was ready at that index; no
\* run fails in processOne outside processPdf (on a file that is missing or has
\* no source or destination); a run that meets no failure ends after the last
\* ready entry.
C9_BatchProcessesReadyFiles ==
    IsBatchLog =>
       LET r == log[1]
           body == RunBody
           readyAtCall == {i \in 0..(Len(r.files) - 1) :
                             r.files[i + 1].sourceRect # NULL /\ r.files[i + 1].destPoint # NULL}
       IN  /\ {r.ready[a] : a \in 1..Len(r.ready)} = readyAtCall
           /\ \A a, b \in 1..Len(r.ready) : a < b => r.ready[a] < r.ready[b]
           /\ \A k \in 1..Len(body) :
                /\ body[k].ev = "start" =>
                     /\ k % 2 = 1
                     /\ body[k].j = (k - 1) \div 2
                     /\ body[k].j < Len(r.ready)
                     /\ body[k].i = r.ready[body[k].j + 1]
                     /\ k > 1 => (body[k - 1].ev = "download" /\ body[k - 1].j = body[k].j - 1)
                     /\ body[k].name = r.files[body[k].i + 1].name
                /\ body[k].ev = "download" =>
                     /\ k > 1
                     /\ body[k - 1].ev = "start"
                     /\ body[k - 1].j = body[k].j
                     /\ body[k].call.doc = body[k - 1].name
                /\ body[k].ev = "fail" => body[k].call # NULL
                /\ body[k].ev = "done" =>
                     /\ k = 2 * Len(r.ready) + 1
                     /\ \A n \in 1..Len(body) : body[n].ev # "fail"

\* the run has just reported a failure
FailureReported == log' # log /\ Len(log') >= 1 /\ log'[Len(log')].ev = "fail"

\* C10: a batch is sequential and fails fast: when the k-th ready entry fails, the
\* k-1 entries before it have been downloaded, in order, nothing is processed
\* after it, and the failure is reported as a batch failure, ending the run.
C10_BatchFailFast ==
    /\ [](IsBatchLog =>
            \A k \in 1..Len(RunBody) :
               RunBody[k].ev = "fail" =>
                  /\ k = Len(RunBody)
                  /\ run = NULL
                  /\ {n \in 1..Len(RunBody) : RunBody[n].ev = "download"}
                        = {2 * m : m \in 1..RunBody[k].j}
                  /\ \A m \in 1..RunBody[k].j : RunBody[2 * m].j = m - 1
                  /\ \A n \in 1..Len(RunBody) :
                        RunBody[n].ev = "start" => RunBody[n].j <= RunBody[k].j)
    /\ [][(FailureReported /\ log'[1].kind = "all") =>
            /\ error' = << "Batch failed", log'[Len(log')].msg >>
            /\ processing' = FALSE
            /\ run' = NULL
            /\ pp' = "idle"]_vars

\* C10 witness: of three ready files the second failed: the first is downloaded,
\* the third was never started, the batch failure is shown
C10_Witness ==
    /\ IsBatchLog
    /\ Len(log[1].ready) = 3
    /\ Len(log) = 5
    /\ log[3].ev = "download"
    /\ log[5].ev = "fail" /\ log[5].j = 1
    /\ error = << "Batch failed", log[5].msg >>
    /\ ~processing

----------------------------------------------------------------------------
(* C11..C16: failures of processing and of intake *)

\* C11 (as claimed): in a batch a failure does not abort the rest: once a
\* processAll run has ended, processOne was called on every ready entry, also on
\* those after an entry that failed.
C11_FailureDoesNotAbortBatch ==
    (IsBatchLog /\ run = NULL) =>
       \A j \in 0..(Len(log[1].ready) - 1) :
          \E k \in 2..Len(log) :
             /\ log[k].ev \in {"start", "fail"}
             /\ log[k].j = j

\* the documents of the entries of a file list, in order
Names(fs) == [k \in 1..Len(fs) |-> fs[k].name]

\* the files of a dropped list that did not fail to load, in order
Loadable(given, failed) == SelectSeq(given, LAMBDA d : d \notin failed)

\* C12: a file that fails to load does not block the others.  Every turn of the
\* loop of onFilesAdded goes on with the rest of the dropped list whether the
\* file loaded or not, appends the file to the end of the list if it loaded and
\* leaves the list alone if it did not; when the call completes the list is the
\* one it found followed by every loadable file of the dropped list, in order.
C12_IntakeNotBlocked ==
    [][(IntakeInFlight /\ intake' # intake) =>
          LET d == Head(intake.queue)
          IN  /\ intake'.queue = Tail(intake.queue)
              /\ d \in intake'.failed => files' = files
              /\ d \notin intake'.failed =>
                    /\ Len(files') = Len(files) + 1
                    /\ SubSeq(files', 1, Len(files)) = files
                    /\ files'[Len(files')].name = d
              /\ ~IntakeInFlight' =>
                    Names(files') = Names(intake.before)
                                       \o Loadable(intake.given, intake'.failed)]_vars

\* C12 witness: of three dropped files the first two failed and the third is in
\* the list
C12_Witness ==
    /\ intake # NULL
    /\ ~IntakeInFlight
    /\ Len(intake.given) = 3
    /\ Cardinality(intake.failed) = 2
    /\ intake.given[3] \notin intake.failed
    /\ Names(files) = << intake.given[3] >>

\* the error shown identifies file d as one that failed to load
ErrorNamesFile(e, d) == Len(e) = 2 /\ e[1] = "Failed to load" /\ e[2] = d

\* C13 (as claimed): when onFilesAdded has completed, the error shown identifies
\* each file of the dropped list that failed to load.
C13_EveryIntakeFailureReported ==
    (intake # NULL /\ ~IntakeInFlight /\ error # << >>) =>
       \A d \in intake.failed : ErrorNamesFile(error, d)

\* C14 (as claimed): when the processing of a document has failed, the error
\* shown names that file.
C14_ProcessingErrorNamesFile ==
    (Len(log) >= 1 /\ log[Len(log)].ev = "fail" /\ log[Len(log)].call # NULL) =>
       /\ Len(error) = 2
       /\ "name" \in DOMAIN error[2]
       /\ error[2].name = log[Len(log)].call.doc

\* a step of this kind starts a run / starts a processPdf call
StartsRun == log' # log /\ Len(log') = 2 /\ log'[2].ev = "start"
StartsCall == log' # log /\ Len(log') >= 1 /\ log'[Len(log')].ev = "start"

\* C15: the interface stays usable after an error.  With every awaited call
\* settling, a run that was started ends with processing back to false, whether
\* it succeeded or failed; when processing is false no run or call is left
\* behind and the Process Current button works again for an active file that is
\* ready; no step of a run (its start included) changes the file list, the
\* working coordinates or local storage.
C15_UsableAfterError ==
    /\ (processing ~> ~processing)
    /\ [](~processing => (run = NULL /\ call = NULL /\ pp = "idle"))
    /\ []((~processing /\ canProcess) => ENABLED ProcessCurrent)
    /\ [][pp' # pp => UNCHANGED appVars]_vars

\* C15 witness: a run has failed, processing is false again and the next attempt
\* can be started
C15_Witness ==
    /\ Len(log) >= 1 /\ log[Len(log)].ev = "fail"
    /\ error # << >>
    /\ ~processing
    /\ ENABLED ProcessCurrent

\* C16: at most one processPdf call is in flight.  A run or a call in flight
\* keeps processing true; a run starts only while processing is false and no
\* call is in flight; within a batch a call starts only from the pause after the
\* download of the call before it.
C16_OneCallInFlight ==
    /\ []((run # NULL \/ call # NULL \/ pp # "idle") => (processing /\ run # NULL))
    /\ [][StartsRun => (~processing /\ run = NULL /\ call = NULL /\ pp = "idle")]_vars
    /\ [][(StartsCall /\ ~StartsRun) =>
             /\ pp = "delay" /\ call = NULL
             /\ log[Len(log)].ev = "download"
             /\ log[Len(log)].j + 1 = log'[Len(log')].j]_vars

\* C16 witness: the second call of a batch is in flight
C16_Witness ==
    /\ IsBatchLog
    /\ Len(log) = 4
    /\ log[4].ev = "start"
    /\ call # NULL /\ processing

----------------------------------------------------------------------------
(* C17..C19: the coordinates kept in local storage, checked under SpecEdit *)

\* C17 (as claimed): local storage is written on every change of a working
\* value to a non-null value, the selection of another file included: whenever
\* the working source rectangle, destination point or cover rectangle is set,
\* its key holds exactly that value.
C17_StorageFollowsWorkingValues ==
    /\ Truthy(sourceRect) => ls.src = JsonStringify(sourceRect)
    /\ Truthy(destPoint) => ls.dst = JsonStringify(destPoint)
    /\ Truthy(coverRect) => ls.cov = JsonStringify(coverRect)

\* C18: persistence round trip.  A text in local storage is the text of the
\* value it parses to, so that a load does not alter it; a step that writes a
\* key writes a text that parses to the working value just set, with the same
\* x, y, width and height; a reload leaves local storage as it is and yields,
\* for each key, the value its text parses to, and null for an absent key.
C18_PersistenceRoundTrip ==
    /\ [](\A key \in {"src", "dst", "cov"} :
             ls[key] # NULL => JsonStringify(JsonParse(ls[key])) = ls[key])
    /\ [][/\ (ls'.src # ls.src /\ ls'.src # NULL) => JsonParse(ls'.src) = sourceRect'
          /\ (ls'.dst # ls.dst /\ ls'.dst # NULL) => JsonParse(ls'.dst) = destPoint'
          /\ (ls'.cov # ls.cov /\ ls'.cov # NULL) => JsonParse(ls'.cov) = coverRect']_vars
    /\ [][Reload =>
             /\ ls' = ls
             /\ sourceRect' = (IF ls.src = NULL THEN NULL ELSE JsonParse(ls.src))
             /\ destPoint' = (IF ls.dst = NULL THEN NULL ELSE JsonParse(ls.dst))
             /\ coverRect' = (IF ls.cov = NULL THEN NULL ELSE JsonParse(ls.cov))]_vars

\* C18 witness: the page was reloaded after the user had typed a source rectangle
\* no earlier session had stored; the reload found its text, with a cover text
\* of half millimetres and no destination, and the working values are these
C18_Witness ==
    /\ log = << [ev |-> "mounted", read |-> ls] >>
    /\ ls.src = JsonStringify(Rect(100, 100, 0, 150))
    /\ sourceRect = Rect(100, 100, 0, 150)
    /\ sourceRect.width = 0 /\ sourceRect.height = 150
    /\ ls.dst = NULL /\ destPoint = NULL
    /\ coverRect = Rect(50, 50, 105, 200)

\* C19: the source and destination keys are destroyed by resetSettings only: a
\* step that takes the text of pdfam-src or pdfam-dst away is resetSettings; and
\* resetSettings leaves the three keys absent, the working values null and the
\* active file's coordinates null.
C19_DestroyedOnlyByReset ==
    /\ [][((ls.src # NULL /\ ls'.src = NULL) \/ (ls.dst # NULL /\ ls'.dst = NULL))
             => ResetSettings]_vars
    /\ [][ResetSettings =>
             /\ ls' = [src |-> NULL, dst |-> NULL, cov |-> NULL]
             /\ sourceRect' = NULL /\ destPoint' = NULL /\ coverRect' = NULL
             /\ Truthy(activeFile) =>
                   /\ files'[activeIdx + 1].sourceRect = NULL
                   /\ files'[activeIdx + 1].destPoint = NULL
                   /\ files'[activeIdx + 1].coverRect = NULL]_vars

\* C19 witness: the settings were reset with two files in the list: the keys are
\* gone, the working values and the active file's coordinates are null, the
\* other file still has the source rectangle that had been stored
C19_Witness ==
    /\ ls = [src |-> NULL, dst |-> NULL, cov |-> NULL]
    /\ sourceRect = NULL /\ destPoint = NULL /\ coverRect = NULL
    /\ Len(files) = 2
    /\ Truthy(activeFile)
    /\ activeFile.sourceRect = NULL /\ activeFile.destPoint = NULL
    /\ \E k \in 1..Len(files) : Truthy(files[k].sourceRect)

----------------------------------------------------------------------------
(* C20: the name of the download, checked under SpecName *)

\* the four-character endings that are ".pdf" in some case
PdfExtensions ==
    { << ".", p, d, f >> : p \in {"p", "P"}, d \in {"d", "D"}, f \in {"f", "F"} }

\* name ends in ".pdf", in any case
HasPdfExtension(name) ==
    Len(name) >= 4 /\ SubSeq(name, Len(name) - 3, Len(name)) \in PdfExtensions

\* C20: every download is named <stem>-moved_address.pdf: the name ends in
\* "-moved_address.pdf", and what stands before it is the file's name without
\* its last four characters when these are ".pdf" in any case (taken off once,
\* whatever the rest ends in), and the file's whole name otherwise.
C20_DownloadName ==
    \A k \in 1..Len(log) :
       log[k].ev = "download" =>
          LET name == FileName(log[k].call.doc)
              out == log[k].filename
              stem == SubSeq(out, 1, Len(out) - Len(Suffix))
          IN  /\ Len(out) >= Len(Suffix)
              /\ SubSeq(out, Len(out) - Len(Suffix) + 1, Len(out)) = Suffix
              /\ HasPdfExtension(name) => stem = SubSeq(name, 1, Len(name) - 4)
              /\ ~HasPdfExtension(name) => stem = name

\* C20 witness: c.pdf.pdf was downloaded as c.pdf-moved_address.pdf
C20_Witness ==
    \E k \in 1..Len(log) :
       /\ log[k].ev = "download"
       /\ FileName(log[k].call.doc) = << "c", ".", "p", "d", "f", ".", "p", "d", "f" >>
       /\ log[k].filename = << "c", ".", "p", "d", "f" >> \o Suffix

\* C21: a draw gesture the user has cancelled is discarded.  When the button went
\* down in select-source mode and the mode was idle again when it came up, the
\* mouse-up emitted no source-selected event (so that the source rectangle, the
\* destination point, local storage and the files are as they were).
C21_CancelledDrawDiscarded ==
    (mouse.button = "up" /\ mouse.downMode = "select-source" /\ mouse.upMode = "idle")
        => emitted = NULL

\* C22: the capture crop is computed at the fixed scale 4, whatever the scale of
\* the preview.  Once extractRegionAsImage has cropped, the crop's x, y, width and
\* height are round(v * MM_TO_PT * 4) of the source rectangle's x, y, width and
\* height in millimetres, and the crop canvas is exactly as wide and as high as
\* the crop.
C22_CropAtFixedScale ==
    (call # NULL /\ canvas # NULL /\ canvas.crop # NULL) =>
        /\ canvas.crop.cx = MathRound(call.srcMm.x * MmToPtNum * 4, PtDen)
        /\ canvas.crop.cy = MathRound(call.srcMm.y * MmToPtNum * 4, PtDen)
        /\ canvas.crop.cw = MathRound(call.srcMm.width * MmToPtNum * 4, PtDen)
        /\ canvas.crop.ch = MathRound(call.srcMm.height * MmToPtNum * 4, PtDen)
        /\ canvas.cropCanvas.width = canvas.crop.cw
        /\ canvas.cropCanvas.height = canvas.crop.ch

\* the coordinates of a rectangle or point, none for null
NumbersOf(v) == IF Truthy(v) THEN {v[k] : k \in DOMAIN v} ELSE {}

C24_AddedFilesGetWorkingCopies ==
    /\ [][(IntakeInFlight' /\ intake' # intake /\ intake'.queue = intake'.given) =>
            /\ intake'.dSrc = sourceRect
            /\ intake'.dDst = destPoint
            /\ intake'.dCov = coverRect]_vars
    /\ [][Len(files') = Len(files) + 1 =>
            LET f == files'[Len(files')]
            IN  /\ SubSeq(files', 1, Len(files)) = files
                /\ f.sourceRect = intake.dSrc
                /\ f.destPoint = intake.dDst
                /\ f.coverRect = intake.dCov
                /\ (Truthy(intake.dSrc) /\ Truthy(intake.dDst)) => IsReady(f)]_vars
    /\ [][Len(files') = Len(files) =>
            Cardinality({k \in 1..Len(files) : files'[k] # files[k]}) <= 1]_vars

\* two files were added with source and destination set, and the source of the
\* first has since been changed: the second still has the values it was given
C24_Witness ==
    /\ Len(files) = 2 /\ intake # NULL /\ ~IntakeInFlight
    /\ Truthy(intake.dSrc) /\ Truthy(intake.dDst)
    /\ files[1].sourceRect # intake.dSrc
    /\ files[2].sourceRect = intake.dSrc /\ files[2].destPoint = intake.dDst
    /\ IsReady(files[2])

\* C25: a batch run processes every file that was ready when processAll was
\* called exactly once, whatever the user does to the list while the run is
\* suspended.  Every processOne call of the run finds a file, and it is the file
\* that was ready at that position of the list when the run started; no file
\* is started twice; every download carries
\* the name of the file whose content it holds; and a run that ends without a
\* failure has downloaded every file that was ready.
C25_BatchKeepsItsFiles ==
    IsBatchLog =>
       LET r == log[1]
           At(k) == r.files[r.ready[log[k].j + 1] + 1]
       IN  \A k \in 2..Len(log) :
             /\ log[k].ev = "start" =>
                  /\ log[k].name = At(k).name
                  /\ \A n \in 2..Len(log) :
                       (n # k /\ log[n].ev = "start") => log[n].name # log[k].name
             /\ log[k].ev = "download" =>
                  /\ log[k].call.doc = At(k).name
                  /\ log[k].filename = DownloadName(FileName(At(k).name))
             /\ log[k].ev = "fail" => log[k].call # NULL
             /\ log[k].ev = "done" =>
                  \A a \in 1..Len(r.ready) :
                     \E n \in 2..Len(log) :
                        /\ log[n].ev = "download"
                        /\ log[n].call.doc = r.files[r.ready[a] + 1].name

\* C26: the working coordinates belong to the active file.  Whenever a file is
\* active, the working source rectangle, destination point and cover rectangle
\* are that file's stored ones (and so the file that is active stays the same
\* when another one is removed).
C26_WorkingBelongsToActive ==
    Truthy(activeFile) =>
        /\ sourceRect = activeFile.sourceRect
        /\ destPoint = activeFile.destPoint
        /\ coverRect = activeFile.coverRect

\* the working coordinates, by the name of the file field they are synced with
Working == [sourceRect |-> sourceRect, destPoint |-> destPoint, coverRect |-> coverRect]

\* the entry of the list fs that was read from document d
EntryOf(fs, d) == fs[CHOOSE k \in 1..Len(fs) : fs[k].name = d]

\* C27: a file's stored coordinates change only with the working copy while the
\* file is active, or by applyToAll.  In every step, a field of a file that stays
\* in the list changes only (a) when that file is the active one, stays active,
\* and the field takes the new value of the working copy, or (b) when every file
\* takes the working value, which itself stays; and a step that makes another
\* file active, or shortens the list, changes no remaining file and leaves local
\* storage as it is.
C27_FilesChangeOnlyWithWorkingCopy ==
    /\ [][\A d \in {files[k].name : k \in 1..Len(files)}
                     \cap {files'[k].name : k \in 1..Len(files')} :
            \A fld \in {"sourceRect", "destPoint", "coverRect"} :
               EntryOf(files', d)[fld] # EntryOf(files, d)[fld] =>
                  \/ /\ Truthy(activeFile) /\ activeFile.name = d
                     /\ activeIdx' = activeIdx
                     /\ EntryOf(files', d)[fld] = Working'[fld]
                  \/ /\ activeIdx' = activeIdx
                     /\ Working'[fld] = Working[fld]
                     /\ \A k \in 1..Len(files') : files'[k][fld] = Working[fld]]_vars
    /\ [][(activeIdx' # activeIdx \/ Len(files') < Len(files)) =>
            /\ ls' = ls
            /\ \A k \in 1..Len(files') : \E n \in 1..Len(files) : files'[k] = files[n]]_vars

\* the first file has been given a source of its own and the second file has
\* then been selected
C27_Witness ==
    /\ Len(files) = 2 /\ activeIdx = 1
    /\ files[1].sourceRect # files[2].sourceRect
    /\ sourceRect = files[2].sourceRect
    /\ Truthy(files[1].sourceRect) /\ Truthy(files[2].sourceRect)
    /\ ls.src = JsonStringify(files[1].sourceRect)

\* C28: Render Info describes what is on the canvas of the preview.  While a
\* render() call is in flight isRendering is true; and when every call has
\* settled and a page is on the canvas, renderInfo holds the scale and the page
\* size the canvas was last sized for.
C28_RenderInfoDescribesCanvas ==
    /\ renders # << >> => isRendering
    /\ (renders = << >> /\ pdfCanvas # NULL /\ pdfCanvas.painted # << >>) =>
          /\ renderInfo # NULL
          /\ renderInfo.scale = pdfCanvas.scale
          /\ renderInfo.pdfWidthPt = PageOf(pdfCanvas.doc).width
          /\ renderInfo.pdfHeightPt = PageOf(pdfCanvas.doc).height

\* C29: the gesture state of the preview is one of idle, drawing, dragging.
\* With mouse-down and mouse-up alternating, isDrawing and isDragging are never
\* both true; dragState and dragRect are non-null exactly while isDragging; a
\* drag starts only in idle mode with no draw in progress; and every mouse-up
\* leaves the gesture idle with no listener of the preview on window.
C29_GestureStateMachine ==
    /\ [](/\ ~(isDrawing /\ isDragging)
          /\ isDragging <=> (dragState # NULL /\ dragRect # NULL)
          /\ ~isDragging => (dragState = NULL /\ dragRect = NULL))
    /\ [][/\ (~isDragging /\ isDragging') => (mode = "idle" /\ ~isDrawing)
          /\ (mouse.button = "down" /\ mouse'.button = "up") =>
                (~isDrawing' /\ ~isDragging' /\ listeners' = {}
                 /\ drawStart' = NULL /\ drawCurrent' = NULL)]_vars

\* a rectangle has been dragged and the button has come up
C29_Witness ==
    /\ mouse.button = "up" /\ mouse.presses > 0
    /\ emitted # NULL /\ emitted.by = "onDragEnd"
    /\ ~isDrawing /\ ~isDragging /\ listeners = {}

\* C30: the cover rectangle can be created by drawing.  With a document on the
\* preview, a press in select-cover mode, a move by more than the minimum size
\* and a release in that mode emit cover-selected, whose handler returns the
\* mode to idle, and leave the drawn rectangle as the working cover rectangle.
C30_CoverCreatedByDrawing ==
    (/\ mouse.button = "up"
     /\ mouse.downMode = "select-cover" /\ mouse.upMode = "select-cover"
     /\ mouse.downAt # NULL /\ mouse.at # NULL /\ renderInfo # NULL
     /\ canvasCoords(mouse.at).x - canvasCoords(mouse.downAt).x > Px(MIN)
     /\ canvasCoords(mouse.at).y - canvasCoords(mouse.downAt).y > Px(MIN))
    => /\ emitted # NULL /\ emitted.ev = "cover-selected"
       /\ coverRect = Rect(pxToMm(canvasCoords(mouse.downAt).x, renderInfo),
                           pxToMm(canvasCoords(mouse.downAt).y, renderInfo),
                           pxToMm(canvasCoords(mouse.at).x - canvasCoords(mouse.downAt).x,
                                  renderInfo),
                           pxToMm(canvasCoords(mouse.at).y - canvasCoords(mouse.downAt).y,
                                  renderInfo))

\* half the side of a handle, in pixels (PdfPreview.vue lines 305-308: 10 px,
\* centred on its place on the border of the overlay)
HandleReach == 5

\* the press that began the drag was on the element dragged: inside the overlay
\* for a move, on the handle for a resize
PressedOnIt ==
    LET ds == dragState
        o == ds.orig
        h == ds.handle
        hx2 == IF Includes(h, "w") THEN 2 * o.left
               ELSE IF Includes(h, "e") THEN 2 * (o.left + o.width)
               ELSE 2 * o.left + o.width
        hy2 == IF Includes(h, "n") THEN 2 * o.top
               ELSE IF Includes(h, "s") THEN 2 * (o.top + o.height)
               ELSE 2 * o.top + o.height
    IN  IF ds.type = "move"
        THEN /\ o.left <= ds.startX /\ ds.startX <= o.left + o.width
             /\ o.top <= ds.startY /\ ds.startY <= o.top + o.height
        ELSE /\ 2 * ds.startX - hx2 <= 2 * Px(HandleReach)
             /\ hx2 - 2 * ds.startX <= 2 * Px(HandleReach)
             /\ 2 * ds.startY - hy2 <= 2 * Px(HandleReach)
             /\ hy2 - 2 * ds.startY <= 2 * Px(HandleReach)

\* C31: a drag changes only what its gesture names.  While the source overlay
\* is moved, the width and height that a mouse-up would emit are those of the
\* source rectangle before the drag; while it is resized by handle h, the edges
\* h does not name (w: left, e: right, n: top, s: bottom) are where they were at
\* the start of the drag, also under the minimum size and the canvas clamp.
C31_DragChangesOnlyItsPart ==
    (isDragging /\ dragState # NULL /\ dragRect # NULL /\ dragState.orig # NULL /\ PressedOnIt)
    => LET o == dragState.orig
           h == dragState.handle
       IN  IF dragState.type = "move"
           THEN dragState.which = "source" =>
                   /\ pxToMm(dragRect.width, renderInfo) = sourceRect.width
                   /\ pxToMm(dragRect.height, renderInfo) = sourceRect.height
           ELSE /\ ~Includes(h, "w") => dragRect.left = o.left
                /\ ~Includes(h, "e") => dragRect.left + dragRect.width = o.left + o.width
                /\ ~Includes(h, "n") => dragRect.top = o.top
                /\ ~Includes(h, "s") => dragRect.top + dragRect.height = o.top + o.height

\* the rectangle r is at least MIN pixels wide and high and, when it is not
\* larger than the canvas, inside it
LiveRectInside(r) ==
    /\ r.width >= Px(MIN)
    /\ r.height >= Px(MIN)
    /\ (pdfCanvas # NULL /\ r.width <= Px(pdfCanvas.width)) =>
          (0 <= r.left /\ r.left + r.width <= Px(pdfCanvas.width))
    /\ (pdfCanvas # NULL /\ r.height <= Px(pdfCanvas.height)) =>
          (0 <= r.top /\ r.top + r.height <= Px(pdfCanvas.height))

\* C32 as stated: during any drag, move or resize by any handle, the live
\* rectangle is at least 10 px wide and high and, whenever it is not larger than
\* the canvas, lies entirely inside the canvas.
C32_LiveRectInsideCanvas ==
    (isDragging /\ dragState # NULL /\ dragRect # NULL /\ PressedOnIt) => LiveRectInside(dragRect)

\* C32 as amended: during any drag, once the pointer has moved, the live
\* rectangle is at least 10 px wide and high and, whenever it is not larger than
\* the canvas, lies entirely inside the canvas.
C32_LiveRectInsideAfterMove ==
    [][(isDragging /\ isDragging' /\ mouse'.at # mouse.at) => LiveRectInside(dragRect')]_vars

\* a resize has met the minimum height, or a drag the edge of the canvas
C32_Witness ==
    /\ isDragging /\ dragState # NULL /\ dragRect # NULL
    /\ mouse.at # mouse.downAt
    /\ \/ dragState.type = "resize" /\ dragRect.height = Px(MIN)
                                    /\ dragState.orig.height > Px(MIN)
       \/ dragState.type = "move" /\ dragRect.left = 0 /\ dragState.orig.left > 0

\* the distance between a and b
Dist(a, b) == IF a < b THEN b - a ELSE a - b

\* t tenths of a millimetre is the length of px pixel units at the scale of
\* renderInfo, rounded to one decimal place
IsRoundedMm(t, px) ==
    LET n == PT_TO_MM(px).num
        d == PT_TO_MM(px).den * renderInfo.scale
    IN  2 * Dist(t * d, n) <= d

\* C33: a draw gesture in select-source mode emits source-selected at mouse-up
\* exactly when the dragged box is more than 10 px wide and more than 10 px
\* high.  The emitted rectangle starts at the minimum corner, has a width and a
\* height that are not negative, and its values are the millimetres of the box
\* rounded to one decimal place; it becomes the source rectangle.  A smaller
\* box emits nothing and leaves the source rectangle and the mode as they were.
C33_DrawEmitsWhenLargeEnough ==
    [][(/\ isDrawing /\ drawStart # NULL /\ drawCurrent # NULL /\ renderInfo # NULL
        /\ mode = "select-source"
        /\ mouse.button = "down" /\ mouse'.button = "up")
       => IF /\ Dist(drawStart.x, drawCurrent.x) > Px(MIN)
             /\ Dist(drawStart.y, drawCurrent.y) > Px(MIN)
          THEN /\ emitted' # NULL
               /\ emitted'.ev = "source-selected"
               /\ IsRoundedMm(emitted'.arg.x, Min(drawStart.x, drawCurrent.x))
               /\ IsRoundedMm(emitted'.arg.y, Min(drawStart.y, drawCurrent.y))
               /\ IsRoundedMm(emitted'.arg.width, Dist(drawStart.x, drawCurrent.x))
               /\ IsRoundedMm(emitted'.arg.height, Dist(drawStart.y, drawCurrent.y))
               /\ emitted'.arg.width >= 0 /\ emitted'.arg.height >= 0
               /\ sourceRect' = emitted'.arg
               /\ mode' = "idle"
          ELSE /\ emitted' = NULL
               /\ sourceRect' = sourceRect
               /\ mode' = "select-source"]_vars

\* a box drawn from its lower right to its upper left corner has been emitted
C33_Witness ==
    /\ mouse.button = "up" /\ mouse.downMode = "select-source" /\ mouse.upMode = "select-source"
    /\ mouse.downAt # NULL /\ mouse.at # NULL
    /\ mouse.downAt.x > mouse.at.x /\ mouse.downAt.y > mouse.at.y
    /\ emitted # NULL /\ emitted.by = "onDrawUp"
    /\ sourceRect = emitted.arg

\* C34: after any sequence of add, select, remove and clear operations the
\* active index is -1 or the index of a file of the list; it is -1 whenever the
\* list is empty, and when the list is not empty and no documents are being
\* read a file is active.
C34_ActiveIndexValid ==
    /\ activeIdx = -1 \/ (0 <= activeIdx /\ activeIdx < Len(files))
    /\ Len(files) = 0 => activeIdx = -1
    /\ (Len(files) # 0 /\ ~IntakeInFlight) => activeIdx >= 0

\* two documents or more were read, all loaded, and after a removal the one
\* file left is active
C34_Witness ==
    /\ intake # NULL /\ ~IntakeInFlight
    /\ Len(intake.given) >= 2 /\ intake.failed = {}
    /\ Len(files) = 1 /\ activeIdx = 0

\* the error processOne throws for the file named n (App.vue line 135)
NotSetError(n) == [e |-> "has no source or destination set", name |-> n]

\* processOne finds the file f at its turn j of a run of the given kind, with
\* its source rectangle or its destination point missing
RefusesFile(kind, j, f) ==
    /\ error' = ErrorFor(kind, NotSetError(f.name))
    /\ call' = NULL
    /\ log' = log \o << [ev |-> "fail", j |-> j, msg |-> NotSetError(f.name),
                        call |-> NULL, ops |-> << >>] >>

\* C35: processPdf is only ever invoked for a file whose source rectangle and
\* destination point are both set.  processCurrent starts nothing when the
\* active file lacks either; processAll takes only files that have both; and
\* when the file found at its turn lacks either, processOne throws an error
\* naming the file, with no call of processPdf and no download.
C35_ProcessPdfOnlyWhenBothSet ==
    /\ [](call # NULL => (Truthy(call.srcMm) /\ Truthy(call.dstMm)))
    /\ [][/\ StartsCall =>
                LET f == FileAt(files, log'[Len(log')].i)
                IN  Truthy(f) /\ Truthy(f.sourceRect) /\ Truthy(f.destPoint)
          /\ (log = << >> /\ log' # << >> /\ log'[1].kind = "current") =>
                /\ Truthy(activeFile)
                /\ Truthy(activeFile.sourceRect) /\ Truthy(activeFile.destPoint)
          /\ (log = << >> /\ log' # << >> /\ log'[1].kind = "all") =>
                \A k \in 1..Len(log'[1].ready) :
                   LET f == files[log'[1].ready[k] + 1]
                   IN  Truthy(f.sourceRect) /\ Truthy(f.destPoint)
          /\ (pp = "delay" /\ pp' # "delay") =>
                LET f == FileAt(files, run.ready[run.j + 2])
                IN  (Truthy(f) /\ ~(Truthy(f.sourceRect) /\ Truthy(f.destPoint))) =>
                       RefusesFile("all", run.j + 1, f)]_vars

\* a batch has come to a file whose coordinates were taken away during the run:
\* the run has ended with the error naming it
C35_Witness ==
    /\ Len(log) >= 3
    /\ log[Len(log)].ev = "fail"
    /\ log[Len(log)].call = NULL
    /\ log[Len(log)].j >= 1
    /\ "name" \in DOMAIN log[Len(log)].msg
    /\ error = ErrorFor("all", log[Len(log)].msg)
    /\ call = NULL

\* C36: the progress text reflects the run.  Whenever no processing run is in
\* flight the progress text is empty or the completion message, so that a
\* failed run leaves no "Processing" text; and while a run is in flight its
\* progress text is shown, the delayed clearing of an earlier completion
\* message notwithstanding.
C36_ProgressTextReflectsRun ==
    /\ ~processing => (progressText = << >> \/ progressText = << "Done" >>)
    /\ processing => (progressText # << >> /\ progressText[1] = "Processing")

====
